---- MODULE Spec2Model ----
(***************************************************************************)
(* Model of the read-only CLMM swap-quote path of raydium-swap:            *)
(*   - swap_compute and its entry get_out_put_amount_and_remaining_accounts*)
(*     (src/src/clmm/clmm_utils.rs), one action per loop iteration;        *)
(*   - TickArrayState scans (src/src/states/tick_array.rs);                *)
(*   - amount_with_slippage, get_transfer_fee, get_transfer_inverse_fee    *)
(*     (src/src/common/common_utils.rs).                                   *)
(* The libraries module (tick_math, swap_math, liquidity_math) and         *)
(* states/pool.rs are not part of the source tree at hand; what the model  *)
(* needs of them is written from the specification and marked so in the    *)
(* model map.  Q64.64 prices are modelled on a linear integer grid, and    *)
(* 64/128-bit widths by the narrower U64_MAX / U128_MAX, so that every     *)
(* value stays inside TLC's integers.                                      *)
(***************************************************************************)
EXTENDS Integers, Sequences, FiniteSets, TLC

VARIABLES
    pc,                 \* "init" | "loop" | "done": position inside swap_compute
    result,             \* "none" | "ok" | an error message | "panic: ..."
    world,              \* index of the on-chain snapshot (ticks, bitmap)
    pool_state,         \* PoolState fields read by the swap
    zero_for_one,
    is_base_input,
    trade_fee_rate,
    amount_specified,
    limit_price,        \* sqrt_price_limit_x64 argument (0 = None)
    tick_arrays,        \* VecDeque<TickArrayState>, by start_tick_index
    state,              \* SwapState
    sqrt_price_limit_x64,
    tick_match_current_tick_array,
    current_valid_tick_array_start_index,
    tick_array_current,
    tick_array_start_index_vec,
    loop_count,
    step,               \* StepComputations of the last completed iteration
    taken,              \* the last tick array taken off the queue inside the loop
    slip,               \* amount_with_slippage: the last two calls, oldest first
    fee,                \* the last get_transfer_fee / get_transfer_inverse_fee call
    change,             \* calculate_swap_change: its arguments, progress and result
    tick_call,          \* the last call of a pure tick helper
    amounts             \* SwapState's two amounts under the updates of the loop

swap_vars == <<pc, result, world, pool_state, zero_for_one, is_base_input,
               trade_fee_rate, amount_specified, limit_price, tick_arrays, state,
               sqrt_price_limit_x64, tick_match_current_tick_array,
               current_valid_tick_array_start_index, tick_array_current,
               tick_array_start_index_vec, loop_count, step, taken>>

vars == <<swap_vars, slip, fee, change, tick_call, amounts>>

----------------------------------------------------------------------------
(* Integer helpers: Rust's / and % truncate toward zero.                    *)

Abs(x) == IF x < 0 THEN -x ELSE x

TruncDiv(a, b) == IF a >= 0 THEN a \div b ELSE -((-a) \div b)

TruncRem(a, b) == a - b * TruncDiv(a, b)

CeilDiv(a, b) == (a + b - 1) \div b

MinOf(S) == CHOOSE x \in S : \A y \in S : x <= y

MaxOf(S) == CHOOSE x \in S : \A y \in S : x >= y

----------------------------------------------------------------------------
(* tick_math (libraries, not in the source tree): bounds and a strictly     *)
(* increasing, mutually inverse tick <-> sqrt price pair.                   *)

MAX_TICK == 443636

MIN_TICK == -MAX_TICK

PRICE_ORIGIN == 2000000

PRICE_PER_TICK == 4

get_sqrt_price_at_tick(tick) == PRICE_ORIGIN + tick * PRICE_PER_TICK

get_tick_at_sqrt_price(sqrt_price_x64) ==
    (sqrt_price_x64 - PRICE_ORIGIN) \div PRICE_PER_TICK

MIN_SQRT_PRICE_X64 == get_sqrt_price_at_tick(MIN_TICK)

MAX_SQRT_PRICE_X64 == get_sqrt_price_at_tick(MAX_TICK)

----------------------------------------------------------------------------
(* TickState and TickArrayState (states/tick_array.rs).                     *)

TICK_ARRAY_SIZE == 60

DefaultTickState == [tick |-> 0, liquidity_net |-> 0, liquidity_gross |-> 0]

is_initialized(tick_state) == tick_state.liquidity_gross # 0

tick_count(tick_spacing) == TICK_ARRAY_SIZE * tick_spacing

\* The start index without the step down for negative ticks.
get_array_start_index_truncating(tick_index, tick_spacing) ==
    tick_count(tick_spacing) * TruncDiv(tick_index, tick_count(tick_spacing))

get_array_start_index(tick_index, tick_spacing) ==
    LET ticks_in_array == tick_count(tick_spacing)
        start == TruncDiv(tick_index, ticks_in_array)
    IN  IF tick_index < 0 /\ TruncRem(tick_index, ticks_in_array) # 0
        THEN (start - 1) * ticks_in_array
        ELSE start * ticks_in_array

NoTick == [some |-> FALSE, tick_state |-> DefaultTickState]

SomeTick(tick_state) == [some |-> TRUE, tick_state |-> tick_state]

RECURSIVE ScanDown(_, _)
ScanDown(ticks, i) ==
    IF i < 0 THEN NoTick
    ELSE IF is_initialized(ticks[i]) THEN SomeTick(ticks[i])
    ELSE ScanDown(ticks, i - 1)

RECURSIVE ScanUp(_, _)
ScanUp(ticks, i) ==
    IF i >= TICK_ARRAY_SIZE THEN NoTick
    ELSE IF is_initialized(ticks[i]) THEN SomeTick(ticks[i])
    ELSE ScanUp(ticks, i + 1)

\* The slots indexed by the scans, in the order of the scan.
RECURSIVE ScanDownReads(_, _)
ScanDownReads(ticks, i) ==
    IF i < 0 THEN {}
    ELSE IF i \in DOMAIN ticks /\ is_initialized(ticks[i]) THEN {i}
    ELSE {i} \cup ScanDownReads(ticks, i - 1)

RECURSIVE ScanUpReads(_, _)
ScanUpReads(ticks, i) ==
    IF i >= TICK_ARRAY_SIZE THEN {}
    ELSE IF i \in DOMAIN ticks /\ is_initialized(ticks[i]) THEN {i}
    ELSE {i} \cup ScanUpReads(ticks, i + 1)

\* The two scan directions exchanged.
first_initialized_tick_directions_exchanged(tick_array, zfo) ==
    IF zfo THEN ScanUp(tick_array.ticks, 0)
    ELSE ScanDown(tick_array.ticks, TICK_ARRAY_SIZE - 1)

\* Err(InvalidTickArray) is NoTick: the callers unwrap it.
first_initialized_tick(tick_array, zfo) ==
    IF zfo THEN ScanDown(tick_array.ticks, TICK_ARRAY_SIZE - 1)
    ELSE ScanUp(tick_array.ticks, 0)

\* The upward scan starting at the slot of the current tick itself.
next_initialized_tick_from_current_slot(tick_array, current_tick_index, tick_spacing, zfo) ==
    IF get_array_start_index(current_tick_index, tick_spacing)
         # tick_array.start_tick_index
    THEN NoTick
    ELSE LET offset_in_array ==
                 TruncDiv(current_tick_index - tick_array.start_tick_index,
                          tick_spacing)
         IN  IF zfo THEN ScanDown(tick_array.ticks, offset_in_array)
             ELSE ScanUp(tick_array.ticks, offset_in_array)

next_initialized_tick(tick_array, current_tick_index, tick_spacing, zfo) ==
    IF get_array_start_index(current_tick_index, tick_spacing)
         # tick_array.start_tick_index
    THEN NoTick
    ELSE LET offset_in_array ==
                 TruncDiv(current_tick_index - tick_array.start_tick_index,
                          tick_spacing)
         IN  IF zfo THEN ScanDown(tick_array.ticks, offset_in_array)
             ELSE ScanUp(tick_array.ticks, offset_in_array + 1)

\* tick_array.rs:176-210: the slots next_initialized_tick indexes.
next_initialized_tick_reads(tick_array, current_tick_index, tick_spacing, zfo) ==
    IF get_array_start_index(current_tick_index, tick_spacing)
         # tick_array.start_tick_index
    THEN {}
    ELSE LET offset_in_array ==
                 TruncDiv(current_tick_index - tick_array.start_tick_index,
                          tick_spacing)
         IN  IF zfo THEN ScanDownReads(tick_array.ticks, offset_in_array)
             ELSE ScanUpReads(tick_array.ticks, offset_in_array + 1)

----------------------------------------------------------------------------
(* On-chain snapshots the engine is run against.  A snapshot is a tick      *)
(* spacing, the initialized ticks, and the pool states it is queried at;    *)
(* the pool bitmap and the bitmap extension mark a tick array exactly when  *)
(* it holds an initialized tick.  liquidity_net is +L at the lower tick of  *)
(* a position and -L at its upper tick.                                     *)

Tick(t, net, gross) == [tick |-> t, liquidity_net |-> net, liquidity_gross |-> gross]

Pool(price, liquidity, spacing) ==
    [sqrt_price_x64 |-> price, tick_current |-> get_tick_at_sqrt_price(price),
     liquidity |-> liquidity, tick_spacing |-> spacing]

\* One initialized tick at 0 with liquidity_net = -200,000, spacing 10.
SingleTickWorld ==
    [tick_spacing |-> 10,
     ticks |-> {Tick(0, -200000, 200000)},
     pools |-> {Pool(get_sqrt_price_at_tick(0), 1000000, 10),
                Pool(get_sqrt_price_at_tick(25) + 1, 1000000, 10),
                Pool(get_sqrt_price_at_tick(-30), 1200000, 10)}]

\* Thirteen initialized ticks inside one tick array: nested positions.
DenseWorld ==
    [tick_spacing |-> 1,
     ticks |-> {Tick(t, 100, 100) : t \in 10..15} \cup {Tick(16, 0, 200)}
                 \cup {Tick(t, -100, 100) : t \in 17..22},
     pools |-> {Pool(get_sqrt_price_at_tick(30), 0, 1),
                Pool(get_sqrt_price_at_tick(5) + 2, 0, 1)}]

\* Initialized ticks in four neighbouring tick arrays (-120, -60, 0, 60).
FourArrayWorld ==
    [tick_spacing |-> 1,
     ticks |-> {Tick(-70, 400000, 400000), Tick(-50, 400000, 400000),
                Tick(-10, 400000, 400000), Tick(5, -400000, 400000),
                Tick(50, -400000, 400000), Tick(70, -400000, 400000)},
     pools |-> {Pool(get_sqrt_price_at_tick(20) + 3, 800000, 1)}]

\* A position whose lower tick is MIN_TICK + 1.
EdgeWorld ==
    [tick_spacing |-> 1,
     ticks |-> {Tick(MIN_TICK + 1, 500000, 500000)},
     pools |-> {Pool(get_sqrt_price_at_tick(MIN_TICK + 6), 500000, 1)}]

Worlds == <<SingleTickWorld, DenseWorld, FourArrayWorld, EdgeWorld>>

TickSpacingOf(w) == Worlds[w].tick_spacing

\* The tick-array start indexes flagged in the bitmaps of each snapshot.
FlaggedArrays ==
    [w \in 1..Len(Worlds) |->
       {get_array_start_index(t.tick, Worlds[w].tick_spacing) : t \in Worlds[w].ticks}]

InitializedArrays(w) == FlaggedArrays[w]

\* The TickArrayState accounts of each snapshot, by start index.
TickArrayAccounts ==
    [w \in 1..Len(Worlds) |->
       [s \in FlaggedArrays[w] |->
          [start_tick_index |-> s,
           ticks |-> [i \in 0..(TICK_ARRAY_SIZE - 1) |->
                        LET here == {t \in Worlds[w].ticks :
                                       t.tick = s + i * Worlds[w].tick_spacing}
                        IN  IF here = {} THEN DefaultTickState
                            ELSE CHOOSE t \in here : TRUE]]]]

TickArrayOf(w, start_index) == TickArrayAccounts[w][start_index]

----------------------------------------------------------------------------
(* PoolState queries (states/pool.rs, not in the source tree).              *)

NoIndex == [some |-> FALSE, start |-> 0]

next_initialized_tick_array_start_index(w, last_tick_array_start_index, zfo) ==
    LET last == get_array_start_index(last_tick_array_start_index, TickSpacingOf(w))
        beyond == {s \in InitializedArrays(w) : IF zfo THEN s < last ELSE s > last}
    IN  IF beyond = {} THEN NoIndex
        ELSE [some |-> TRUE, start |-> IF zfo THEN MaxOf(beyond) ELSE MinOf(beyond)]

get_first_initialized_tick_array(w, pool, zfo) ==
    LET cur == get_array_start_index(pool.tick_current, pool.tick_spacing)
        next == next_initialized_tick_array_start_index(w, cur, zfo)
    IN  IF cur \in InitializedArrays(w)
        THEN [ok |-> TRUE, is_current |-> TRUE, start |-> cur]
        ELSE [ok |-> next.some, is_current |-> FALSE, start |-> next.start]

----------------------------------------------------------------------------
(* liquidity_math and swap_math (libraries, not in the source tree): the    *)
(* constant-liquidity step on the linear price grid.  A token amount for a  *)
(* price move d at liquidity L is L * d / AMOUNT_DENOMINATOR, rounded up    *)
(* for amounts paid in and down for amounts paid out.                       *)

AMOUNT_DENOMINATOR == 1000000

FEE_RATE_DENOMINATOR_VALUE == 1000000

add_delta(x, y) == [ok |-> x + y >= 0, value |-> x + y]

get_delta_amount(sqrt_price_a, sqrt_price_b, liquidity, round_up) ==
    LET product == liquidity * Abs(sqrt_price_a - sqrt_price_b)
    IN  IF round_up THEN CeilDiv(product, AMOUNT_DENOMINATOR)
        ELSE product \div AMOUNT_DENOMINATOR

get_next_sqrt_price_from_input(sqrt_price, liquidity, amount_in, zfo) ==
    LET move == (amount_in * AMOUNT_DENOMINATOR) \div liquidity
    IN  IF zfo THEN sqrt_price - move ELSE sqrt_price + move

get_next_sqrt_price_from_output(sqrt_price, liquidity, amount_out, zfo) ==
    LET move == CeilDiv(amount_out * AMOUNT_DENOMINATOR, liquidity)
    IN  IF zfo THEN sqrt_price - move ELSE sqrt_price + move

compute_swap_step(sqrt_price_current, sqrt_price_target, liquidity, amount_remaining, fee_rate, base_input, zfo) ==
    LET less_fee == (amount_remaining * (FEE_RATE_DENOMINATOR_VALUE - fee_rate))
                        \div FEE_RATE_DENOMINATOR_VALUE
        in_range == get_delta_amount(sqrt_price_current, sqrt_price_target,
                                     liquidity, base_input)
        next == IF base_input
                THEN IF less_fee >= in_range THEN sqrt_price_target
                     ELSE get_next_sqrt_price_from_input(
                              sqrt_price_current, liquidity, less_fee, zfo)
                ELSE IF amount_remaining >= in_range THEN sqrt_price_target
                     ELSE get_next_sqrt_price_from_output(
                              sqrt_price_current, liquidity, amount_remaining, zfo)
        is_exceed == sqrt_price_target = next
        amount_in == IF is_exceed /\ base_input THEN in_range
                     ELSE get_delta_amount(next, sqrt_price_current, liquidity, TRUE)
        out_raw == IF is_exceed /\ ~base_input THEN in_range
                   ELSE get_delta_amount(next, sqrt_price_current, liquidity, FALSE)
        amount_out == IF ~base_input /\ out_raw > amount_remaining
                      THEN amount_remaining ELSE out_raw
        fee_amount == IF base_input /\ next # sqrt_price_target
                      THEN amount_remaining - amount_in
                      ELSE CeilDiv(amount_in * fee_rate,
                                   FEE_RATE_DENOMINATOR_VALUE - fee_rate)
    IN  [sqrt_price_next_x64 |-> next, amount_in |-> amount_in,
         amount_out |-> amount_out, fee_amount |-> fee_amount]

----------------------------------------------------------------------------
(* Inputs of one swap computation.                                          *)

MaxQueue == 3

LIMIT_OFFSET == 72

AmountsSpecified == {0, 100, 315, 2000}

TradeFeeRates == {0, 100000}

\* Every tick-array queue a caller can hand in: up to MaxQueue accounts of
\* the snapshot, in any order.
Queues(w) ==
    UNION {[1..n -> InitializedArrays(w)] : n \in 0..MaxQueue}

\* None (0), the current price itself, and a limit LIMIT_OFFSET away from
\* the current price in the swap direction.
LimitPrices(pool, zfo) ==
    {0, pool.sqrt_price_x64,
     IF zfo THEN pool.sqrt_price_x64 - LIMIT_OFFSET
     ELSE pool.sqrt_price_x64 + LIMIT_OFFSET}

NoStep ==
    [valid |-> FALSE, sqrt_price_start_x64 |-> 0, tick_next |-> 0,
     initialized |-> FALSE, sqrt_price_next_x64 |-> 0, target_price |-> 0,
     amount_in |-> 0, amount_out |-> 0, fee_amount |-> 0, liquidity_net |-> 0,
     liquidity_start |-> 0]

NoTaken == [count |-> 0, before |-> 0, start |-> 0, accepted |-> FALSE]

IdleSlip == <<>>

IdleFee == [called |-> FALSE]

IdleChange == [stage |-> "idle"]

IdleCall == [called |-> FALSE]

IdleAmounts == [stage |-> "idle"]

\* Nothing but the swap engine is running.
IdleRest == slip = IdleSlip /\ fee = IdleFee /\ change = IdleChange /\ tick_call = IdleCall /\ amounts = IdleAmounts

InitSwap ==
    /\ pc = "init"
    /\ result = "none"
    /\ world \in 1..Len(Worlds)
    /\ pool_state \in Worlds[world].pools
    /\ zero_for_one \in BOOLEAN
    /\ is_base_input \in BOOLEAN
    /\ trade_fee_rate \in TradeFeeRates
    /\ amount_specified \in AmountsSpecified
    /\ limit_price \in LimitPrices(pool_state, zero_for_one)
    /\ tick_arrays \in Queues(world)
    /\ state = [amount_specified_remaining |-> 0, amount_calculated |-> 0,
                sqrt_price_x64 |-> 0, tick |-> 0, liquidity |-> 0]
    /\ sqrt_price_limit_x64 = 0
    /\ tick_match_current_tick_array = FALSE
    /\ current_valid_tick_array_start_index = 0
    /\ tick_array_current = 0
    /\ tick_array_start_index_vec = <<>>
    /\ loop_count = 0
    /\ step = NoStep
    /\ taken = NoTaken

Init == InitSwap /\ IdleRest

----------------------------------------------------------------------------
(* get_out_put_amount_and_remaining_accounts and swap_compute.              *)

LOOP_LIMIT == 10

\* The loop without its iteration cap.
LoopLimitNeverExceeded(count) == FALSE

\* clmm_utils.rs:375
LoopLimitExceeded(count) == count > LOOP_LIMIT

\* No check of the amount at all.
AmountErrorNeverRaised(amount) == ""

\* clmm_utils.rs:325-327: the validation error, or "" when the amount passes.
AmountError(amount) == IF amount = 0 THEN "amountSpecified must not be 0" ELSE ""

\* clmm_utils.rs:328-336
DefaultedLimit(limit, zfo) ==
    IF limit = 0
    THEN IF zfo THEN MIN_SQRT_PRICE_X64 + 1 ELSE MAX_SQRT_PRICE_X64 - 1
    ELSE limit

\* The validation with a limit equal to the current price let through.
LimitErrorNotStrict(limit, current, zfo) ==
    IF zfo
    THEN IF limit < MIN_SQRT_PRICE_X64
         THEN "sqrt_price_limit_x64 must greater than MIN_SQRT_PRICE_X64"
         ELSE IF limit > current
         THEN "sqrt_price_limit_x64 must smaller than current"
         ELSE ""
    ELSE IF limit > MAX_SQRT_PRICE_X64
         THEN "sqrt_price_limit_x64 must smaller than MAX_SQRT_PRICE_X64"
         ELSE IF limit < current
         THEN "sqrt_price_limit_x64 must greater than current"
         ELSE ""

\* clmm_utils.rs:337-351: the validation error, or "" when the limit passes.
LimitError(limit, current, zfo) ==
    IF zfo
    THEN IF limit < MIN_SQRT_PRICE_X64
         THEN "sqrt_price_limit_x64 must greater than MIN_SQRT_PRICE_X64"
         ELSE IF limit >= current
         THEN "sqrt_price_limit_x64 must smaller than current"
         ELSE ""
    ELSE IF limit > MAX_SQRT_PRICE_X64
         THEN "sqrt_price_limit_x64 must smaller than MAX_SQRT_PRICE_X64"
         ELSE IF limit <= current
         THEN "sqrt_price_limit_x64 must greater than current"
         ELSE ""

\* clmm_utils.rs:370-373
LoopCondition(st, limit) ==
    /\ st.amount_specified_remaining # 0
    /\ st.sqrt_price_x64 # limit
    /\ st.tick < MAX_TICK
    /\ st.tick > MIN_TICK

\* clmm_utils.rs:397-403: the index the next tick array is predicted from.
\* The argument current_valid_tick_array_start_index is never reassigned.
PredictedFrom(first_start_index, current_array_start_index) == first_start_index

\* clmm_utils.rs:429-435
TargetPrice(sqrt_price_next, limit, zfo) ==
    IF (zfo /\ sqrt_price_next < limit) \/ (~zfo /\ sqrt_price_next > limit)
    THEN limit
    ELSE sqrt_price_next

CrossingDeltaNotNegated(liquidity_net, zfo) == liquidity_net

\* clmm_utils.rs:475-478
CrossingDelta(liquidity_net, zfo) == IF zfo THEN -liquidity_net ELSE liquidity_net

\* The tick left at the boundary tick in both directions.
TickAfterCrossingNotLowered(tick_next, zfo) == tick_next

\* clmm_utils.rs:482-486
TickAfterCrossing(tick_next, zfo) == IF zfo THEN tick_next - 1 ELSE tick_next

\* The outcome of swap_compute's prologue (clmm_utils.rs:292-368).
BeginOutcome ==
    LET first == get_first_initialized_tick_array(world, pool_state, zero_for_one)
        limit == DefaultedLimit(limit_price, zero_for_one)
        limit_error == LimitError(limit, pool_state.sqrt_price_x64, zero_for_one)
        seeded == [amount_specified_remaining |-> amount_specified,
                   amount_calculated |-> 0,
                   sqrt_price_x64 |-> pool_state.sqrt_price_x64,
                   tick |-> pool_state.tick_current,
                   liquidity |-> pool_state.liquidity]
        base == [result |-> "none", pc |-> "done", queue |-> tick_arrays,
                 state |-> state, limit |-> 0, match |-> FALSE, start |-> 0,
                 current |-> 0, vec |-> <<>>]
    IN  IF ~first.ok
        THEN [base EXCEPT !.result = "panic: get_first_initialized_tick_array"]
        ELSE IF AmountError(amount_specified) # ""
        THEN [base EXCEPT !.result = AmountError(amount_specified),
                          !.match = first.is_current, !.start = first.start]
        ELSE IF limit_error # ""
        THEN [base EXCEPT !.result = limit_error, !.limit = limit,
                          !.match = first.is_current, !.start = first.start]
        ELSE LET ready == [base EXCEPT !.limit = limit, !.state = seeded,
                                       !.match = first.is_current,
                                       !.start = first.start]
             IN  IF tick_arrays = <<>>
                 THEN [ready EXCEPT !.result = "panic: pop_front"]
                 ELSE IF Head(tick_arrays) # first.start
                 THEN [ready EXCEPT
                         !.result = "tick array start tick index does not match",
                         !.queue = Tail(tick_arrays),
                         !.current = Head(tick_arrays)]
                 ELSE [ready EXCEPT !.pc = "loop",
                                    !.queue = Tail(tick_arrays),
                                    !.current = Head(tick_arrays),
                                    !.vec = <<Head(tick_arrays)>>]

Begin ==
    /\ pc = "init"
    /\ \E o \in {BeginOutcome} :
           /\ pc' = o.pc
           /\ result' = o.result
           /\ tick_arrays' = o.queue
           /\ state' = o.state
           /\ sqrt_price_limit_x64' = o.limit
           /\ tick_match_current_tick_array' = o.match
           /\ current_valid_tick_array_start_index' = o.start
           /\ tick_array_current' = o.current
           /\ tick_array_start_index_vec' = o.vec
    /\ UNCHANGED <<world, pool_state, zero_for_one, is_base_input, trade_fee_rate,
                   amount_specified, limit_price, loop_count, step, taken, slip, fee, change, tick_call, amounts>>

\* The candidate tick of one iteration (clmm_utils.rs:381-418): where it
\* comes from, and what taking a further tick array off the queue does.
Candidate ==
    LET zfo == zero_for_one
        current == TickArrayOf(world, tick_array_current)
        in_array == next_initialized_tick(current, state.tick,
                                          pool_state.tick_spacing, zfo)
        use_first == ~in_array.some /\ ~tick_match_current_tick_array
        first_here == first_initialized_tick(current, zfo)
        local == IF in_array.some THEN in_array.tick_state
                 ELSE IF use_first THEN first_here.tick_state
                 ELSE DefaultTickState
        predicted == next_initialized_tick_array_start_index(
                         world,
                         PredictedFrom(current_valid_tick_array_start_index,
                                       tick_array_current),
                         zfo)
        popped == Head(tick_arrays)
        first_popped == first_initialized_tick(TickArrayOf(world, popped), zfo)
        base == [error |-> "", tick_state |-> local,
                 match |-> tick_match_current_tick_array \/ use_first,
                 queue |-> tick_arrays, current |-> tick_array_current,
                 vec |-> tick_array_start_index_vec, taken |-> taken]
        took(accepted) == [count |-> taken.count + 1, before |-> tick_array_current,
                           start |-> popped, accepted |-> accepted]
    IN  IF use_first /\ ~first_here.some
        THEN [base EXCEPT !.error = "panic: first_initialized_tick"]
        ELSE IF is_initialized(local) THEN base
        ELSE IF tick_arrays = <<>>
        THEN [base EXCEPT !.error = "panic: pop_front"]
        ELSE IF ~predicted.some
        THEN [base EXCEPT
                !.error = "tick array start tick index out of range limit",
                !.queue = Tail(tick_arrays), !.current = popped,
                !.taken = took(FALSE)]
        ELSE IF popped # predicted.start
        THEN [base EXCEPT
                !.error = "tick array start tick index does not match",
                !.queue = Tail(tick_arrays), !.current = popped,
                !.taken = took(FALSE)]
        ELSE [base EXCEPT
                !.error = IF first_popped.some THEN ""
                          ELSE "panic: first_initialized_tick",
                !.tick_state = first_popped.tick_state,
                !.queue = Tail(tick_arrays), !.current = popped,
                !.vec = Append(tick_array_start_index_vec, popped),
                !.taken = took(TRUE)]

\* The arithmetic of one iteration (clmm_utils.rs:419-491) for the candidate
\* tick next_tick: the new SwapState, the StepComputations, and the panic of
\* an unwrap on a failed checked operation, if any.
StepMath(next_tick) ==
    LET zfo == zero_for_one
        tick_next == IF next_tick.tick < MIN_TICK THEN MIN_TICK
                     ELSE IF next_tick.tick > MAX_TICK THEN MAX_TICK
                     ELSE next_tick.tick
        initialized == is_initialized(next_tick)
        sqrt_price_next == get_sqrt_price_at_tick(tick_next)
        target_price == TargetPrice(sqrt_price_next, sqrt_price_limit_x64, zfo)
        swap_step == compute_swap_step(state.sqrt_price_x64, target_price,
                                       state.liquidity,
                                       state.amount_specified_remaining,
                                       trade_fee_rate, is_base_input, zfo)
        price == swap_step.sqrt_price_next_x64
        spent == IF is_base_input
                 THEN swap_step.amount_in + swap_step.fee_amount
                 ELSE swap_step.amount_out
        gained == IF is_base_input
                  THEN swap_step.amount_out
                  ELSE swap_step.amount_in + swap_step.fee_amount
        crossed == price = sqrt_price_next
        delta == add_delta(state.liquidity,
                           CrossingDelta(next_tick.liquidity_net, zfo))
        liquidity == IF crossed /\ initialized THEN delta.value
                     ELSE state.liquidity
        tick == IF crossed THEN TickAfterCrossing(tick_next, zfo)
                ELSE IF price # state.sqrt_price_x64
                THEN get_tick_at_sqrt_price(price)
                ELSE state.tick
        error == IF spent > state.amount_specified_remaining
                 THEN "panic: checked_sub"
                 ELSE IF crossed /\ initialized /\ ~delta.ok
                 THEN "panic: add_delta"
                 ELSE IF ~crossed /\ price # state.sqrt_price_x64
                         /\ (price < MIN_SQRT_PRICE_X64 \/ price >= MAX_SQRT_PRICE_X64)
                 THEN "panic: get_tick_at_sqrt_price"
                 ELSE ""
    IN  [error |-> error,
         state |-> [amount_specified_remaining |->
                        state.amount_specified_remaining - spent,
                    amount_calculated |-> state.amount_calculated + gained,
                    sqrt_price_x64 |-> price,
                    tick |-> tick,
                    liquidity |-> liquidity],
         step |-> [valid |-> TRUE,
                   sqrt_price_start_x64 |-> state.sqrt_price_x64,
                   tick_next |-> tick_next, initialized |-> initialized,
                   sqrt_price_next_x64 |-> sqrt_price_next,
                   target_price |-> target_price,
                   amount_in |-> swap_step.amount_in,
                   amount_out |-> swap_step.amount_out,
                   fee_amount |-> swap_step.fee_amount,
                   liquidity_net |-> next_tick.liquidity_net,
                   liquidity_start |-> state.liquidity]]

\* One pass through the while loop (clmm_utils.rs:370-492).
Step ==
    /\ pc = "loop"
    /\ LoopCondition(state, sqrt_price_limit_x64)
    /\ IF LoopLimitExceeded(loop_count)
       THEN /\ pc' = "done"
            /\ result' = "loop_count limit"
            /\ UNCHANGED <<tick_arrays, state, tick_match_current_tick_array,
                           tick_array_current, tick_array_start_index_vec,
                           loop_count, step, taken>>
       ELSE \E c \in {Candidate} :
            \E m \in {IF c.error = "" THEN StepMath(c.tick_state)
                       ELSE [error |-> c.error, state |-> state, step |-> step]} :
                /\ tick_arrays' = c.queue
                /\ tick_match_current_tick_array' = c.match
                /\ tick_array_current' = c.current
                /\ tick_array_start_index_vec' = c.vec
                /\ taken' = c.taken
                /\ IF c.error # ""
                   THEN /\ pc' = "done"
                        /\ result' = c.error
                        /\ UNCHANGED <<state, loop_count, step>>
                   ELSE IF m.error # ""
                   THEN /\ pc' = "done"
                        /\ result' = m.error
                        /\ UNCHANGED <<state, loop_count, step>>
                   ELSE /\ pc' = "loop"
                        /\ result' = "none"
                        /\ state' = m.state
                        /\ step' = m.step
                        /\ loop_count' = loop_count + 1
    /\ UNCHANGED <<world, pool_state, zero_for_one, is_base_input, trade_fee_rate,
                   amount_specified, limit_price, sqrt_price_limit_x64,
                   current_valid_tick_array_start_index, slip, fee, change, tick_call, amounts>>

\* The loop condition fails: Ok((amount_calculated, visited)) (clmm_utils.rs:494).
Finish ==
    /\ pc = "loop"
    /\ ~LoopCondition(state, sqrt_price_limit_x64)
    /\ pc' = "done"
    /\ result' = "ok"
    /\ UNCHANGED <<world, pool_state, zero_for_one, is_base_input, trade_fee_rate,
                   amount_specified, limit_price, tick_arrays, state,
                   sqrt_price_limit_x64, tick_match_current_tick_array,
                   current_valid_tick_array_start_index, tick_array_current,
                   tick_array_start_index_vec, loop_count, step, taken, slip, fee, change, tick_call, amounts>>

Next == Begin \/ Step \/ Finish

Spec == Init /\ [][Next]_vars

\* swap_compute is sequential code: a step that can be taken is taken.
SpecLive == Spec /\ WF_vars(Next)

----------------------------------------------------------------------------
(* Integer widths.  u64 is scaled down to 15 bits and u128 to twice that,   *)
(* so that a product of two u64 values can exceed u128 by the same margin   *)
(* as in the program: (2^64 - 1) * (2^64 - 1 + 10000) > 2^128 - 1.          *)

U64_MAX == 32767

U128_MAX == (U64_MAX + 1) * (U64_MAX + 1) - 1

\* Option<T> of the checked_* operations.
None == [some |-> FALSE, value |-> 0]

Some(v) == [some |-> TRUE, value |-> v]

checked_add(a, b, max) == IF a + b <= max THEN Some(a + b) ELSE None

checked_sub(a, b) == IF a >= b THEN Some(a - b) ELSE None

checked_mul(a, b, max) == IF a * b <= max THEN Some(a * b) ELSE None

\* Outcome of a call: Ok(value), Err(_), or a panic (unwrap on None).
Ok(v) == [outcome |-> "ok", value |-> v]

Err == [outcome |-> "err", value |-> 0]

Panic == [outcome |-> "panic", value |-> 0]

----------------------------------------------------------------------------
(* common_utils.rs: amount_with_slippage.                                   *)

\* common_types.rs:41
TEN_THOUSAND == 10000

\* The same scaling with the product taken in u64 instead of u128.
amount_with_slippage_in_u64(amount, slippage_bps, up_towards) ==
    LET factor == IF up_towards
                  THEN checked_add(slippage_bps, TEN_THOUSAND, U64_MAX)
                  ELSE checked_sub(TEN_THOUSAND, slippage_bps)
    IN  IF ~factor.some THEN Panic
        ELSE LET product == checked_mul(amount, factor.value, U64_MAX)
             IN  IF ~product.some THEN Panic
                 ELSE Ok(product.value \div TEN_THOUSAND)

\* The same scaling with the two directions exchanged.
amount_with_slippage_directions_swapped(amount, slippage_bps, up_towards) ==
    LET factor == IF ~up_towards
                  THEN checked_add(slippage_bps, TEN_THOUSAND, U128_MAX)
                  ELSE checked_sub(TEN_THOUSAND, slippage_bps)
    IN  IF ~factor.some THEN Panic
        ELSE LET product == checked_mul(amount, factor.value, U128_MAX)
             IN  IF ~product.some THEN Panic
                 ELSE IF product.value \div TEN_THOUSAND <= U64_MAX
                      THEN Ok(product.value \div TEN_THOUSAND)
                      ELSE Err

\* common_utils.rs:18-36.  Each unwrap() of a failed checked operation is a
\* panic; only the final u64::try_from yields Err.
amount_with_slippage(amount, slippage_bps, up_towards) ==
    LET factor == IF up_towards
                  THEN checked_add(slippage_bps, TEN_THOUSAND, U128_MAX)
                  ELSE checked_sub(TEN_THOUSAND, slippage_bps)
    IN  IF ~factor.some THEN Panic
        ELSE LET product == checked_mul(amount, factor.value, U128_MAX)
             IN  IF ~product.some THEN Panic
                 ELSE IF product.value \div TEN_THOUSAND <= U64_MAX
                      THEN Ok(product.value \div TEN_THOUSAND)
                      ELSE Err

SlipAmounts == {0, 1, 9999, 10000, 20000, U64_MAX}

SlipBps == {0, 1, 50, 10000, 10001, U64_MAX}

\* A swap engine that is never started.
IdleSwap ==
    /\ pc = "idle"
    /\ result = "none"
    /\ world = 1
    /\ pool_state = Pool(get_sqrt_price_at_tick(0), 0, 1)
    /\ zero_for_one = FALSE
    /\ is_base_input = FALSE
    /\ trade_fee_rate = 0
    /\ amount_specified = 0
    /\ limit_price = 0
    /\ tick_arrays = <<>>
    /\ state = [amount_specified_remaining |-> 0, amount_calculated |-> 0,
                sqrt_price_x64 |-> 0, tick |-> 0, liquidity |-> 0]
    /\ sqrt_price_limit_x64 = 0
    /\ tick_match_current_tick_array = FALSE
    /\ current_valid_tick_array_start_index = 0
    /\ tick_array_current = 0
    /\ tick_array_start_index_vec = <<>>
    /\ loop_count = 0
    /\ step = NoStep
    /\ taken = NoTaken

InitSlippage == IdleSwap /\ IdleRest

LastTwo(calls) == IF Len(calls) > 2 THEN Tail(calls) ELSE calls

\* One call of amount_with_slippage; the call before it is remembered.
AmountWithSlippage ==
    \E amount \in SlipAmounts, slippage_bps \in SlipBps, up_towards \in BOOLEAN :
        /\ slip' = LastTwo(Append(slip,
                       [amount |-> amount, slippage_bps |-> slippage_bps,
                        up_towards |-> up_towards,
                        result |-> amount_with_slippage(amount, slippage_bps,
                                                        up_towards)]))
        /\ UNCHANGED <<swap_vars, fee, change, tick_call, amounts>>

NextSlippage == AmountWithSlippage

SpecSlippage == InitSlippage /\ [][NextSlippage]_vars

----------------------------------------------------------------------------
(* spl_token_2022 transfer-fee extension, as used by common_utils.rs.       *)

MAX_FEE_BASIS_POINTS == 10000

\* TransferFee { epoch, maximum_fee, transfer_fee_basis_points }
TransferFee(epoch, maximum_fee, basis_points) ==
    [epoch |-> epoch, maximum_fee |-> maximum_fee,
     transfer_fee_basis_points |-> basis_points]

\* TransferFeeConfig::get_epoch_fee
get_epoch_fee(config, epoch) ==
    IF epoch >= config.newer_transfer_fee.epoch
    THEN config.newer_transfer_fee
    ELSE config.older_transfer_fee

\* TransferFee::calculate_fee: Option<u64>
calculate_fee(transfer_fee, pre_fee_amount) ==
    IF transfer_fee.transfer_fee_basis_points = 0 \/ pre_fee_amount = 0
    THEN Some(0)
    ELSE LET raw_fee == CeilDiv(pre_fee_amount * transfer_fee.transfer_fee_basis_points,
                                MAX_FEE_BASIS_POINTS)
         IN  IF raw_fee > U64_MAX THEN None
             ELSE Some(IF raw_fee < transfer_fee.maximum_fee
                       THEN raw_fee ELSE transfer_fee.maximum_fee)

\* TransferFee::calculate_pre_fee_amount: Option<u64>
calculate_pre_fee_amount(transfer_fee, post_fee_amount) ==
    LET basis_points == transfer_fee.transfer_fee_basis_points
        raw_pre_fee_amount == CeilDiv(post_fee_amount * MAX_FEE_BASIS_POINTS,
                                      MAX_FEE_BASIS_POINTS - basis_points)
    IN  IF basis_points = 0 THEN Some(post_fee_amount)
        ELSE IF post_fee_amount = 0 THEN Some(0)
        ELSE IF basis_points = MAX_FEE_BASIS_POINTS
        THEN checked_add(transfer_fee.maximum_fee, post_fee_amount, U64_MAX)
        ELSE IF raw_pre_fee_amount - post_fee_amount >= transfer_fee.maximum_fee
        THEN checked_add(post_fee_amount, transfer_fee.maximum_fee, U64_MAX)
        ELSE IF raw_pre_fee_amount <= U64_MAX THEN Some(raw_pre_fee_amount)
        ELSE None

\* TransferFee::calculate_inverse_fee: Option<u64>
calculate_inverse_fee(transfer_fee, post_fee_amount) ==
    LET pre_fee_amount == calculate_pre_fee_amount(transfer_fee, post_fee_amount)
    IN  IF pre_fee_amount.some
        THEN calculate_fee(transfer_fee, pre_fee_amount.value)
        ELSE None

\* Option::unwrap
Unwrap(option) == IF option.some THEN Ok(option.value) ELSE Panic

\* get_transfer_fee with the explicit MAX_FEE_BASIS_POINTS branch of
\* get_transfer_inverse_fee copied into it.
get_transfer_fee_pinned_to_maximum(account_state, epoch, pre_fee_amount) ==
    IF account_state.has_extension
    THEN LET transfer_fee == get_epoch_fee(account_state.config, epoch)
         IN  IF transfer_fee.transfer_fee_basis_points = MAX_FEE_BASIS_POINTS
             THEN Ok(transfer_fee.maximum_fee)
             ELSE Unwrap(calculate_fee(transfer_fee, pre_fee_amount))
    ELSE Ok(0)

\* common_utils.rs:194-207
get_transfer_fee(account_state, epoch, pre_fee_amount) ==
    IF account_state.has_extension
    THEN Unwrap(calculate_fee(get_epoch_fee(account_state.config, epoch),
                              pre_fee_amount))
    ELSE Ok(0)

\* common_utils.rs:173-191
get_transfer_inverse_fee(account_state, epoch, post_fee_amount) ==
    IF account_state.has_extension
    THEN LET transfer_fee == get_epoch_fee(account_state.config, epoch)
         IN  IF transfer_fee.transfer_fee_basis_points = MAX_FEE_BASIS_POINTS
             THEN Ok(transfer_fee.maximum_fee)
             ELSE Unwrap(calculate_inverse_fee(transfer_fee, post_fee_amount))
    ELSE Ok(0)

OLDER_EPOCH == 1

NEWER_EPOCH == 3

MaximumFees == {0, 500}

BasisPoints == {0, 100, MAX_FEE_BASIS_POINTS}

NoTransferFeeConfig ==
    [older_transfer_fee |-> TransferFee(0, 0, 0),
     newer_transfer_fee |-> TransferFee(0, 0, 0)]

\* Mint accounts: a plain mint, and Token-2022 mints with every combination
\* of older and newer transfer fee.
Mints ==
    {[has_extension |-> FALSE, config |-> NoTransferFeeConfig]}
    \cup {[has_extension |-> TRUE,
           config |-> [older_transfer_fee |-> TransferFee(OLDER_EPOCH, m1, b1),
                       newer_transfer_fee |-> TransferFee(NEWER_EPOCH, m2, b2)]] :
            m1 \in MaximumFees, b1 \in BasisPoints,
            m2 \in MaximumFees, b2 \in BasisPoints}

Epochs == {OLDER_EPOCH + 1, NEWER_EPOCH}

FeeAmounts == {0, 1, 499, 500, 501, 20000, U64_MAX}

InitFee == IdleSwap /\ IdleRest

GetTransferFee ==
    \E mint \in Mints, epoch \in Epochs, amount \in FeeAmounts :
        /\ fee' = [called |-> TRUE, op |-> "get_transfer_fee", mint |-> mint,
                   epoch |-> epoch, amount |-> amount,
                   result |-> get_transfer_fee(mint, epoch, amount)]
        /\ UNCHANGED <<swap_vars, slip, change, tick_call, amounts>>

GetTransferInverseFee ==
    \E mint \in Mints, epoch \in Epochs, amount \in FeeAmounts :
        /\ fee' = [called |-> TRUE, op |-> "get_transfer_inverse_fee",
                   mint |-> mint, epoch |-> epoch, amount |-> amount,
                   result |-> get_transfer_inverse_fee(mint, epoch, amount)]
        /\ UNCHANGED <<swap_vars, slip, change, tick_call, amounts>>

NextFee == GetTransferFee \/ GetTransferInverseFee

SpecFee == InitFee /\ [][NextFee]_vars

----------------------------------------------------------------------------
(* clmm_utils.rs: calculate_swap_change and load_cur_and_next_five_tick_array. *)

\* The identifiers held by the PoolState account.
PoolAccounts ==
    [token_mint_0 |-> "mint0", token_mint_1 |-> "mint1",
     token_vault_0 |-> "vault0", token_vault_1 |-> "vault1"]

POOL_ID == "pool"

RAYDIUM_V3_PROGRAM == "raydium_v3_program"

\* tick_array.rs:7
TICK_ARRAY_SEED == "tick_array"

\* The owner of a mint account: Token-2022 for a mint with extensions.
TokenProgramOf(mint_state) ==
    IF mint_state.has_extension THEN "token_2022" ELSE "spl_token"

\* The two legs with the vaults of the token_mint_1 branch left as in the
\* token_mint_0 branch.
SwapLegsVaultsNotSwapped(user_mint, mint0_state, mint1_state) ==
    IF user_mint = PoolAccounts.token_mint_0
    THEN [matched |-> TRUE, zero_for_one |-> TRUE,
          input_vault |-> PoolAccounts.token_vault_0,
          output_vault |-> PoolAccounts.token_vault_1,
          input_vault_mint |-> PoolAccounts.token_mint_0,
          output_vault_mint |-> PoolAccounts.token_mint_1,
          input_token_program |-> TokenProgramOf(mint0_state),
          output_token_program |-> TokenProgramOf(mint1_state)]
    ELSE IF user_mint = PoolAccounts.token_mint_1
    THEN [matched |-> TRUE, zero_for_one |-> FALSE,
          input_vault |-> PoolAccounts.token_vault_0,
          output_vault |-> PoolAccounts.token_vault_1,
          input_vault_mint |-> PoolAccounts.token_mint_1,
          output_vault_mint |-> PoolAccounts.token_mint_0,
          input_token_program |-> TokenProgramOf(mint1_state),
          output_token_program |-> TokenProgramOf(mint0_state)]
    ELSE [matched |-> FALSE, zero_for_one |-> FALSE,
          input_vault |-> "", output_vault |-> "",
          input_vault_mint |-> "", output_vault_mint |-> "",
          input_token_program |-> "", output_token_program |-> ""]

\* clmm_utils.rs:98-128.  matched = FALSE is the panic! of the else branch.
SwapLegs(user_mint, mint0_state, mint1_state) ==
    IF user_mint = PoolAccounts.token_mint_0
    THEN [matched |-> TRUE, zero_for_one |-> TRUE,
          input_vault |-> PoolAccounts.token_vault_0,
          output_vault |-> PoolAccounts.token_vault_1,
          input_vault_mint |-> PoolAccounts.token_mint_0,
          output_vault_mint |-> PoolAccounts.token_mint_1,
          input_token_program |-> TokenProgramOf(mint0_state),
          output_token_program |-> TokenProgramOf(mint1_state)]
    ELSE IF user_mint = PoolAccounts.token_mint_1
    THEN [matched |-> TRUE, zero_for_one |-> FALSE,
          input_vault |-> PoolAccounts.token_vault_1,
          output_vault |-> PoolAccounts.token_vault_0,
          input_vault_mint |-> PoolAccounts.token_mint_1,
          output_vault_mint |-> PoolAccounts.token_mint_0,
          input_token_program |-> TokenProgramOf(mint1_state),
          output_token_program |-> TokenProgramOf(mint0_state)]
    ELSE [matched |-> FALSE, zero_for_one |-> FALSE,
          input_vault |-> "", output_vault |-> "",
          input_vault_mint |-> "", output_vault_mint |-> "",
          input_token_program |-> "", output_token_program |-> ""]

\* The mint states of the two directions exchanged.
InputMintStateExchanged(zfo, mint0_state, mint1_state) ==
    IF zfo THEN mint1_state ELSE mint0_state

\* clmm_utils.rs:130-134 and 197-201: the mint whose transfer fee applies.
InputMintState(zfo, mint0_state, mint1_state) ==
    IF zfo THEN mint0_state ELSE mint1_state

\* clmm_utils.rs:129-137
InputTransferFee(base_in, zfo, mint0_state, mint1_state, epoch, amount) ==
    IF base_in
    THEN get_transfer_fee(InputMintState(zfo, mint0_state, mint1_state), epoch, amount)
    ELSE Ok(0)

\* clmm_utils.rs:245
MAX_ARRAY_SIZE == 5

\* clmm_utils.rs:246-268: the start indexes following start_index.
RECURSIVE NextTickArrays(_, _, _, _)
NextTickArrays(w, start_index, zfo, max_array_size) ==
    IF max_array_size = 0 THEN <<>>
    ELSE LET next_tick_array_index ==
                 next_initialized_tick_array_start_index(w, start_index, zfo)
         IN  IF ~next_tick_array_index.some THEN <<>>
             ELSE <<next_tick_array_index.start>>
                    \o NextTickArrays(w, next_tick_array_index.start, zfo,
                                      max_array_size - 1)

\* clmm_utils.rs:223-280: the queue of tick arrays, or Err when the pool has
\* no initialized tick array in the swap direction.
load_cur_and_next_five_tick_array(w, pool, zfo) ==
    LET first == get_first_initialized_tick_array(w, pool, zfo)
    IN  IF ~first.ok THEN [ok |-> FALSE, tick_arrays |-> <<>>]
        ELSE [ok |-> TRUE,
              tick_arrays |-> <<first.start>>
                                \o NextTickArrays(w, first.start, zfo, MAX_ARRAY_SIZE)]

\* i32::to_le_bytes
to_le_bytes(index) ==
    <<index % 256, (index \div 256) % 256, (index \div 65536) % 256,
      (index \div 16777216) % 256>>

\* i32::to_be_bytes (clmm_utils.rs:183): two's complement, high byte first.
to_be_bytes(index) ==
    <<(index \div 16777216) % 256, (index \div 65536) % 256,
      (index \div 256) % 256, index % 256>>

\* Pubkey::find_program_address: the address is a function of the seeds and
\* of the program id, and of nothing else.
find_program_address(seeds, program_id) ==
    [seeds |-> seeds, program_id |-> program_id]

\* clmm_utils.rs:176-189
remaining_tick_array_keys(tick_array_indexes) ==
    [i \in 1..Len(tick_array_indexes) |->
        find_program_address(
            <<TICK_ARRAY_SEED, POOL_ID, to_be_bytes(tick_array_indexes[i])>>,
            RAYDIUM_V3_PROGRAM)]

\* How `other_amount_threshold += transfer_fee` ends when the sum does not
\* fit in u64: a debug build panics, a release build wraps.
Builds == {"debug", "release"}

\* clmm_utils.rs:202
AddTransferFee(other_amount_threshold, transfer_fee, build) ==
    IF other_amount_threshold + transfer_fee <= U64_MAX
    THEN Ok(other_amount_threshold + transfer_fee)
    ELSE IF build = "debug" THEN Panic
    ELSE Ok((other_amount_threshold + transfer_fee) % (U64_MAX + 1))

\* clmm_utils.rs:190-203: the threshold from the engine's amount_calculated.
OtherAmountThreshold(base_in, zfo, amount_calculated, slippage_bps, mint0_state, mint1_state, epoch, build) ==
    IF base_in
    THEN amount_with_slippage(amount_calculated, slippage_bps, FALSE)
    ELSE LET scaled == amount_with_slippage(amount_calculated, slippage_bps, TRUE)
             transfer_fee == get_transfer_inverse_fee(
                                 InputMintState(zfo, mint0_state, mint1_state),
                                 epoch, scaled.value)
         IN  IF scaled.outcome # "ok" THEN scaled
             ELSE IF transfer_fee.outcome # "ok" THEN Panic
             ELSE AddTransferFee(scaled.value, transfer_fee.value, build)

NoLegs == SwapLegs("", NoTransferFeeConfig, NoTransferFeeConfig)

ChangeAmounts == {0, 100, 2000}

ChangeSlippages == {0, 50, 10001}

\* A mint whose fee is pinned at 100% with a maximum_fee close to u64::MAX.
PinnedMint ==
    [has_extension |-> TRUE,
     config |-> [older_transfer_fee |-> TransferFee(OLDER_EPOCH, 0, 0),
                 newer_transfer_fee |-> TransferFee(NEWER_EPOCH, U64_MAX - 50,
                                                    MAX_FEE_BASIS_POINTS)]]

\* A mint charging 1%, at most 500.
OnePercentMint ==
    [has_extension |-> TRUE,
     config |-> [older_transfer_fee |-> TransferFee(OLDER_EPOCH, 0, 0),
                 newer_transfer_fee |-> TransferFee(NEWER_EPOCH, 500, 100)]]

PlainMint == [has_extension |-> FALSE, config |-> NoTransferFeeConfig]

ChangeMints == {PlainMint, OnePercentMint, PinnedMint}

\* The arguments of one calculate_swap_change call and the accounts it reads.
InitChange ==
    /\ pc = "change"
    /\ result = "none"
    /\ world \in 1..Len(Worlds)
    /\ pool_state \in Worlds[world].pools
    /\ zero_for_one = FALSE
    /\ is_base_input = FALSE
    /\ trade_fee_rate \in TradeFeeRates
    /\ amount_specified = 0
    /\ limit_price \in {0, pool_state.sqrt_price_x64 - LIMIT_OFFSET,
                        pool_state.sqrt_price_x64 + LIMIT_OFFSET}
    /\ tick_arrays = <<>>
    /\ state = [amount_specified_remaining |-> 0, amount_calculated |-> 0,
                sqrt_price_x64 |-> 0, tick |-> 0, liquidity |-> 0]
    /\ sqrt_price_limit_x64 = 0
    /\ tick_match_current_tick_array = FALSE
    /\ current_valid_tick_array_start_index = 0
    /\ tick_array_current = 0
    /\ tick_array_start_index_vec = <<>>
    /\ loop_count = 0
    /\ step = NoStep
    /\ taken = NoTaken
    /\ slip = IdleSlip /\ fee = IdleFee /\ tick_call = IdleCall /\ amounts = IdleAmounts
    /\ \E user_mint \in {"mint0", "mint1", "other_mint"}, amount \in ChangeAmounts,
          base_in \in BOOLEAN, slippage_bps \in ChangeSlippages,
          mint0_state \in ChangeMints, mint1_state \in ChangeMints :
            change = [stage |-> "start", user_mint |-> user_mint, amount |-> amount,
                      base_in |-> base_in, slippage_bps |-> slippage_bps,
                      mint0_state |-> mint0_state, mint1_state |-> mint1_state,
                      epoch |-> NEWER_EPOCH, legs |-> NoLegs, outcome |-> "none",
                      other_amount_threshold |-> 0,
                      remaining_tick_array_keys |-> <<>>]

\* clmm_utils.rs:98-149: the legs, the amount for the engine, the queue.
ChangeBeginOutcome ==
    LET legs == SwapLegs(change.user_mint, change.mint0_state, change.mint1_state)
        transfer_fee == InputTransferFee(change.base_in, legs.zero_for_one,
                                         change.mint0_state, change.mint1_state,
                                         change.epoch, change.amount)
        specified == checked_sub(change.amount, transfer_fee.value)
        loaded == load_cur_and_next_five_tick_array(world, pool_state, legs.zero_for_one)
        stop(outcome) == [outcome |-> outcome, legs |-> legs, amount_specified |-> 0,
                          tick_arrays |-> <<>>]
    IN  IF ~legs.matched THEN stop("panic")
        ELSE IF transfer_fee.outcome # "ok" \/ ~specified.some THEN stop("panic")
        ELSE IF ~loaded.ok THEN stop("err")
        ELSE [outcome |-> "none", legs |-> legs,
              amount_specified |-> specified.value,
              tick_arrays |-> loaded.tick_arrays]

ChangeBegin ==
    /\ pc = "change"
    /\ change.stage = "start"
    /\ \E o \in {ChangeBeginOutcome} :
          IF o.outcome # "none"
          THEN /\ pc' = "finished"
               /\ change' = [change EXCEPT !.stage = "end", !.outcome = o.outcome,
                                           !.legs = o.legs]
               /\ UNCHANGED <<zero_for_one, is_base_input, amount_specified, tick_arrays>>
          ELSE /\ pc' = "init"
               /\ change' = [change EXCEPT !.stage = "engine", !.legs = o.legs]
               /\ zero_for_one' = o.legs.zero_for_one
               /\ is_base_input' = change.base_in
               /\ amount_specified' = o.amount_specified
               /\ tick_arrays' = o.tick_arrays
    /\ UNCHANGED <<result, world, pool_state, trade_fee_rate, limit_price, state,
                   sqrt_price_limit_x64, tick_match_current_tick_array,
                   current_valid_tick_array_start_index, tick_array_current,
                   tick_array_start_index_vec, loop_count, step, taken,
                   slip, fee, tick_call, amounts>>

\* clmm_utils.rs:160-220: unwrap of the engine's result, the account keys,
\* the threshold.
ChangeFinish ==
    /\ pc = "done"
    /\ change.stage = "engine"
    /\ pc' = "finished"
    /\ IF result # "ok"
       THEN change' = [change EXCEPT !.stage = "end", !.outcome = "panic"]
       ELSE \E build \in Builds :
            \E t \in {OtherAmountThreshold(change.base_in, zero_for_one,
                                           state.amount_calculated,
                                           change.slippage_bps, change.mint0_state,
                                           change.mint1_state, change.epoch, build)} :
                change' = [change EXCEPT
                             !.stage = "end", !.outcome = t.outcome,
                             !.other_amount_threshold = t.value,
                             !.remaining_tick_array_keys =
                                 remaining_tick_array_keys(tick_array_start_index_vec)]
    /\ UNCHANGED <<result, world, pool_state, zero_for_one, is_base_input,
                   trade_fee_rate, amount_specified, limit_price, tick_arrays, state,
                   sqrt_price_limit_x64, tick_match_current_tick_array,
                   current_valid_tick_array_start_index, tick_array_current,
                   tick_array_start_index_vec, loop_count, step, taken,
                   slip, fee, tick_call, amounts>>

NextChange == ChangeBegin \/ Begin \/ Step \/ Finish \/ ChangeFinish

SpecChange == InitChange /\ [][NextChange]_vars

----------------------------------------------------------------------------
(* clmm_math.rs tick_with_spacing and TickArrayState::get_array_start_index *)
(* as pure functions of a tick and a tick spacing.                          *)

\* The compressed tick without the step down for negative ticks.
tick_with_spacing_truncating(tick, tick_spacing) ==
    TruncDiv(tick, tick_spacing) * tick_spacing

\* clmm_math.rs:29-35.  `/` and `%` of Rust truncate toward zero.
tick_with_spacing(tick, tick_spacing) ==
    LET compressed == TruncDiv(tick, tick_spacing)
    IN  IF tick < 0 /\ TruncRem(tick, tick_spacing) # 0
        THEN (compressed - 1) * tick_spacing
        ELSE compressed * tick_spacing

\* Ticks within TickRange of zero, and the two ends of the tick domain.
TickRange == 130

Ticks == (-TickRange..TickRange) \cup {MIN_TICK, MIN_TICK + 1, MAX_TICK - 1, MAX_TICK}

\* Tick spacings: small ones, 60, and the largest u16.
MAX_TICK_SPACING == 65535

TickSpacings == {1, 7, 10, 60, MAX_TICK_SPACING}

InitTicks == IdleSwap /\ IdleRest

TickWithSpacing ==
    /\ pc = "idle"
    /\ \E tick \in Ticks, tick_spacing \in TickSpacings :
          tick_call' = [called |-> TRUE, function |-> "tick_with_spacing",
                        tick |-> tick, tick_spacing |-> tick_spacing,
                        result |-> tick_with_spacing(tick, tick_spacing),
                        again |-> tick_with_spacing(
                                      tick_with_spacing(tick, tick_spacing),
                                      tick_spacing)]
    /\ UNCHANGED <<swap_vars, slip, fee, change, amounts>>

GetArrayStartIndex ==
    /\ pc = "idle"
    /\ \E tick \in Ticks, tick_spacing \in TickSpacings :
          tick_call' = [called |-> TRUE, function |-> "get_array_start_index",
                        tick |-> tick, tick_spacing |-> tick_spacing,
                        result |-> get_array_start_index(tick, tick_spacing),
                        again |-> get_array_start_index(
                                      get_array_start_index(tick, tick_spacing),
                                      tick_spacing)]
    /\ UNCHANGED <<swap_vars, slip, fee, change, amounts>>

NextTicks == TickWithSpacing \/ GetArrayStartIndex

SpecTicks == InitTicks /\ [][NextTicks]_vars

----------------------------------------------------------------------------
(* The amount updates of one loop iteration (clmm_utils.rs:447-470) on the  *)
(* full width of u64, for every triple of amounts a swap step can return.   *)

\* clmm_utils.rs:455 and 468: `step.amount_in + step.fee_amount`, an unchecked
\* u64 addition: a debug build panics on overflow, a release build wraps.
AddInAndFee(amount_in, fee_amount, build) ==
    IF amount_in + fee_amount <= U64_MAX
    THEN Ok(amount_in + fee_amount)
    ELSE IF build = "debug" THEN Panic
    ELSE Ok((amount_in + fee_amount) % (U64_MAX + 1))

\* clmm_utils.rs:452-470: the new amount_specified_remaining and
\* amount_calculated, or the panic of an unwrap.
UpdatedAmounts(remaining, calculated, base_input, amount_in, amount_out, fee_amount, build) ==
    LET in_and_fee == AddInAndFee(amount_in, fee_amount, build)
        spent == IF base_input THEN in_and_fee.value ELSE amount_out
        gained == IF base_input THEN amount_out ELSE in_and_fee.value
    IN  IF in_and_fee.outcome # "ok" \/ ~checked_sub(remaining, spent).some
           \/ ~checked_add(calculated, gained, U64_MAX).some
        THEN [outcome |-> "panic", remaining |-> remaining, calculated |-> calculated]
        ELSE [outcome |-> "ok", remaining |-> remaining - spent,
              calculated |-> calculated + gained]

MaxSteps == 2

\* Amounts a swap step can return, up to the top of u64.
StepAmounts == {0, 1, 100, U64_MAX - 100, U64_MAX}

InitAmounts ==
    /\ IdleSwap
    /\ slip = IdleSlip /\ fee = IdleFee /\ change = IdleChange /\ tick_call = IdleCall
    /\ \E base_input \in BOOLEAN, specified \in StepAmounts \ {0} :
          amounts = [stage |-> "loop", is_base_input |-> base_input,
                     amount_specified |-> specified,
                     amount_specified_remaining |-> specified,
                     amount_calculated |-> 0,
                     remaining_before |-> specified,
                     sum_in_and_fee |-> 0, sum_out |-> 0, steps |-> 0]

\* One iteration's update of the amounts.  A swap step never returns more
\* than the remaining amount on the side that is held fixed, and its fee is
\* at most the amount paid in.
UpdateAmounts ==
    /\ pc = "idle"
    /\ amounts.stage = "loop"
    /\ amounts.steps < MaxSteps
    /\ amounts.amount_specified_remaining # 0
    /\ \E amount_in \in StepAmounts, amount_out \in StepAmounts,
          fee_amount \in StepAmounts, build \in Builds :
          /\ fee_amount <= amount_in
          /\ IF amounts.is_base_input
             THEN amount_in + fee_amount <= amounts.amount_specified_remaining
             ELSE amount_out <= amounts.amount_specified_remaining
          /\ \E u \in {UpdatedAmounts(amounts.amount_specified_remaining,
                                      amounts.amount_calculated,
                                      amounts.is_base_input,
                                      amount_in, amount_out, fee_amount, build)} :
                amounts' = IF u.outcome = "panic"
                           THEN [amounts EXCEPT !.stage = "panic"]
                           ELSE [amounts EXCEPT
                                   !.amount_specified_remaining = u.remaining,
                                   !.amount_calculated = u.calculated,
                                   !.remaining_before =
                                       amounts.amount_specified_remaining,
                                   !.sum_in_and_fee = @ + amount_in + fee_amount,
                                   !.sum_out = @ + amount_out,
                                   !.steps = @ + 1]
    /\ UNCHANGED <<swap_vars, slip, fee, change, tick_call>>

NextAmounts == UpdateAmounts

SpecAmounts == InitAmounts /\ [][NextAmounts]_vars

----------------------------------------------------------------------------
(* TickArrayState::first_initialized_tick and next_initialized_tick as pure *)
(* functions of a tick array.                                               *)

ArraySpacings == {1, 10}

\* Start indexes -60 * spacing, 0 and 60 * spacing.
ArrayStartMultiples == {-1, 0, 1}

\* The slots that may hold an initialized tick: both ends, a neighbour of
\* an end, and one in the middle.
SlotChoices == {0, 1, 30, 59}

TestTickArray(start, tick_spacing, slots) ==
    [start_tick_index |-> start,
     ticks |-> [i \in 0..(TICK_ARRAY_SIZE - 1) |->
                  IF i \in slots
                  THEN [tick |-> start + i * tick_spacing, liquidity_net |-> 100,
                        liquidity_gross |-> 100]
                  ELSE DefaultTickState]]

TestTickArrays(tick_spacing) ==
    {TestTickArray(k * tick_count(tick_spacing), tick_spacing, slots) :
        k \in ArrayStartMultiples, slots \in SUBSET SlotChoices}

\* Ticks on and next to the array's first, middle and last slots, and just
\* outside the array on both sides.
CurrentTicks(start, tick_spacing) ==
    {start + d : d \in {-1, 0, tick_spacing - 1, tick_spacing,
                        29 * tick_spacing, 30 * tick_spacing,
                        58 * tick_spacing + tick_spacing - 1,
                        59 * tick_spacing, 60 * tick_spacing - 1,
                        60 * tick_spacing}}

InitTickArray == IdleSwap /\ IdleRest

FirstInitializedTick ==
    /\ pc = "idle"
    /\ tick_call = IdleCall
    /\ \E tick_spacing \in ArraySpacings, zfo \in BOOLEAN :
       \E tick_array \in TestTickArrays(tick_spacing) :
          tick_call' = [called |-> TRUE, function |-> "first_initialized_tick",
                        tick_array |-> tick_array, zero_for_one |-> zfo,
                        result |-> first_initialized_tick(tick_array, zfo)]
    /\ UNCHANGED <<swap_vars, slip, fee, change, amounts>>

NextInitializedTick ==
    /\ pc = "idle"
    /\ tick_call = IdleCall
    /\ \E tick_spacing \in ArraySpacings, zfo \in BOOLEAN :
       \E tick_array \in TestTickArrays(tick_spacing) :
       \E current_tick_index \in CurrentTicks(tick_array.start_tick_index, tick_spacing) :
          tick_call' = [called |-> TRUE, function |-> "next_initialized_tick",
                        tick_array |-> tick_array, tick_spacing |-> tick_spacing,
                        current_tick_index |-> current_tick_index,
                        zero_for_one |-> zfo,
                        result |-> next_initialized_tick(
                                       tick_array, current_tick_index,
                                       tick_spacing, zfo),
                        reads |-> next_initialized_tick_reads(
                                       tick_array, current_tick_index,
                                       tick_spacing, zfo)]
    /\ UNCHANGED <<swap_vars, slip, fee, change, amounts>>

NextTickArray == FirstInitializedTick \/ NextInitializedTick

SpecTickArray == InitTickArray /\ [][NextTickArray]_vars

----------------------------------------------------------------------------
(* TickArrayBitmapExtension (states/tickarray_bitmap_extension.rs).  A      *)
(* 512-bit bank (U512) is the set of its set bits, bit 0 the lowest.  The   *)
(* helpers of libraries::tick_array_bit_map are not in the source tree.     *)

TICK_ARRAY_BITMAP_SIZE == 512

\* tickarray_bitmap_extension.rs:14
EXTENSION_TICKARRAY_BITMAP_SIZE == 14

max_tick_in_tickarray_bitmap(tick_spacing) ==
    tick_spacing * TICK_ARRAY_SIZE * TICK_ARRAY_BITMAP_SIZE

\* The (min, max) tick boundary of the bank holding tick_array_start_index.
get_bitmap_tick_boundary(tick_array_start_index, tick_spacing) ==
    LET ticks_in_one_bitmap == max_tick_in_tickarray_bitmap(tick_spacing)
        m == Abs(tick_array_start_index) \div ticks_in_one_bitmap
        min_value == ticks_in_one_bitmap
                       * (IF tick_array_start_index < 0
                             /\ Abs(tick_array_start_index) % ticks_in_one_bitmap # 0
                          THEN m + 1 ELSE m)
    IN  IF tick_array_start_index < 0
        THEN <<-min_value, -min_value + ticks_in_one_bitmap>>
        ELSE <<min_value, min_value + ticks_in_one_bitmap>>

\* U512 << n and U512 >> n: bits shifted past either end are lost.
ShiftLeft(bits, n) == {b + n : b \in bits} \cap (0..(TICK_ARRAY_BITMAP_SIZE - 1))

ShiftRight(bits, n) == {b - n : b \in {x \in bits : x >= n}}

leading_zeros(bits) == TICK_ARRAY_BITMAP_SIZE - 1 - MaxOf(bits)

trailing_zeros(bits) == MinOf(bits)

\* tick_array.rs:380-382
check_is_out_of_boundary(tick) == ~(MIN_TICK <= tick /\ tick <= MAX_TICK)

\* tick_array.rs:232-242
check_is_valid_start_index(tick_index, tick_spacing) ==
    IF check_is_out_of_boundary(tick_index)
    THEN IF tick_index > MAX_TICK THEN FALSE
         ELSE tick_index = get_array_start_index(MIN_TICK, tick_spacing)
    ELSE TruncRem(tick_index, tick_count(tick_spacing)) = 0

\* tickarray_bitmap_extension.rs:80-90: TRUE for Ok(()).
check_extension_boundary(tick_index, tick_spacing) ==
    LET positive_tick_boundary == max_tick_in_tickarray_bitmap(tick_spacing)
        negative_tick_boundary == -positive_tick_boundary
    IN  /\ MAX_TICK > positive_tick_boundary
        /\ negative_tick_boundary > MIN_TICK
        /\ ~(tick_index >= negative_tick_boundary /\ tick_index < positive_tick_boundary)

\* The bank number without the step down at a negative bank boundary.
get_bitmap_offset_not_adjusted(tick_index, tick_spacing) ==
    IF ~check_is_valid_start_index(tick_index, tick_spacing) THEN Err
    ELSE IF ~check_extension_boundary(tick_index, tick_spacing) THEN Err
    ELSE Ok(Abs(tick_index) \div max_tick_in_tickarray_bitmap(tick_spacing) - 1)

\* tickarray_bitmap_extension.rs:56-68
get_bitmap_offset(tick_index, tick_spacing) ==
    IF ~check_is_valid_start_index(tick_index, tick_spacing) THEN Err
    ELSE IF ~check_extension_boundary(tick_index, tick_spacing) THEN Err
    ELSE LET ticks_in_one_bitmap == max_tick_in_tickarray_bitmap(tick_spacing)
             offset == Abs(tick_index) \div ticks_in_one_bitmap - 1
         IN  IF tick_index < 0 /\ Abs(tick_index) % ticks_in_one_bitmap = 0
             THEN Ok(offset - 1)
             ELSE Ok(offset)

\* The offset counted from the bank's upper end for every index.
tick_array_offset_in_bitmap_not_mirrored(tick_array_start_index, tick_spacing) ==
    (Abs(tick_array_start_index) % max_tick_in_tickarray_bitmap(tick_spacing))
        \div tick_count(tick_spacing)

\* tickarray_bitmap_extension.rs:218-225
tick_array_offset_in_bitmap(tick_array_start_index, tick_spacing) ==
    LET m == Abs(tick_array_start_index) % max_tick_in_tickarray_bitmap(tick_spacing)
        offset == m \div tick_count(tick_spacing)
    IN  IF tick_array_start_index < 0 /\ m # 0
        THEN TICK_ARRAY_BITMAP_SIZE - offset
        ELSE offset

\* tickarray_bitmap_extension.rs:163-216
next_initialized_tick_array_in_bitmap(tickarray_bitmap, next_tick_array_start_index, tick_spacing, zfo) ==
    LET boundary == get_bitmap_tick_boundary(next_tick_array_start_index, tick_spacing)
        offset == tick_array_offset_in_bitmap(next_tick_array_start_index, tick_spacing)
        offset_bit_map == IF zfo
                          THEN ShiftLeft(tickarray_bitmap,
                                         TICK_ARRAY_BITMAP_SIZE - 1 - offset)
                          ELSE ShiftRight(tickarray_bitmap, offset)
    IN  IF zfo
        THEN IF offset_bit_map = {}
             THEN [found |-> FALSE, index |-> boundary[1]]
             ELSE [found |-> TRUE,
                   index |-> next_tick_array_start_index
                               - leading_zeros(offset_bit_map) * tick_count(tick_spacing)]
        ELSE IF offset_bit_map = {}
             THEN [found |-> FALSE,
                   index |-> boundary[2] - tick_count(tick_spacing)]
             ELSE [found |-> TRUE,
                   index |-> next_tick_array_start_index
                               + trailing_zeros(offset_bit_map) * tick_count(tick_spacing)]

BitmapSpacings == {1, 10}

\* Banks starting at -2, -1, 0 and 1 times the span of one bank.
BankMultiples == {-2, -1, 0, 1}

\* Bits that may be set in a bank: both ends, a neighbour, the middle.
BitChoices == {0, 1, 255, 511}

\* Offsets of the start index inside its bank.
StartOffsets == {0, 1, 2, 254, 255, 256, 510, 511}

\* Spacings for get_bitmap_offset: 14 is the largest whose bank span is
\* below MAX_TICK.
OffsetSpacings == {1, 10, 14, 15}

BankSteps == {-15, -14, -2, -1, 0, 1, 2, 13, 14, 15}

\* Tick indexes on and beside bank boundaries, and at the ends of the tick
\* range.
OffsetTicks(tick_spacing) ==
    {j * max_tick_in_tickarray_bitmap(tick_spacing) + d :
        j \in BankSteps,
        d \in {-tick_count(tick_spacing), -1, 0, 1, tick_count(tick_spacing)}}
      \cup {MIN_TICK, MAX_TICK,
            get_array_start_index(MIN_TICK, tick_spacing),
            get_array_start_index(MAX_TICK, tick_spacing)}

InitBitmap == IdleSwap /\ IdleRest

NextInitializedTickArrayInBitmap ==
    /\ pc = "idle"
    /\ tick_call = IdleCall
    /\ \E tick_spacing \in BitmapSpacings, bank \in BankMultiples,
          offset \in StartOffsets, bits \in SUBSET BitChoices, zfo \in BOOLEAN :
       \E bank_min \in {bank * max_tick_in_tickarray_bitmap(tick_spacing)} :
       \E start \in {bank_min + offset * tick_count(tick_spacing)} :
          tick_call' = [called |-> TRUE,
                        function |-> "next_initialized_tick_array_in_bitmap",
                        tickarray_bitmap |-> bits, bank_min |-> bank_min,
                        offset |-> offset, start |-> start,
                        tick_spacing |-> tick_spacing, zero_for_one |-> zfo,
                        result |-> next_initialized_tick_array_in_bitmap(
                                       bits, start, tick_spacing, zfo)]
    /\ UNCHANGED <<swap_vars, slip, fee, change, amounts>>

GetBitmapOffset ==
    /\ pc = "idle"
    /\ tick_call = IdleCall
    /\ \E tick_spacing \in OffsetSpacings :
       \E tick_index \in OffsetTicks(tick_spacing) :
          tick_call' = [called |-> TRUE, function |-> "get_bitmap_offset",
                        tick_index |-> tick_index, tick_spacing |-> tick_spacing,
                        result |-> get_bitmap_offset(tick_index, tick_spacing)]
    /\ UNCHANGED <<swap_vars, slip, fee, change, amounts>>

NextBitmap == NextInitializedTickArrayInBitmap \/ GetBitmapOffset

SpecBitmap == InitBitmap /\ [][NextBitmap]_vars

----------------------------------------------------------------------------
(* common_utils.rs get_pool_mints_inverse_fee, on the two mint accounts and *)
(* the epoch it loads.                                                      *)

\* common_utils.rs:115-142: the transfer_fee of the two TransferFeeInfo.  The
\* calls pass post_fee_amount second and epoch third (lines 134 and 139).
get_pool_mints_inverse_fee(mint0_state, mint1_state, epoch, post_fee_amount_0, post_fee_amount_1) ==
    <<get_transfer_inverse_fee(mint0_state, post_fee_amount_0, epoch),
      get_transfer_inverse_fee(mint1_state, post_fee_amount_1, epoch)>>

PostFeeAmounts == {0, 100, 2000}

InitPoolFee == IdleSwap /\ IdleRest

GetPoolMintsInverseFee ==
    /\ pc = "idle"
    /\ fee = IdleFee
    /\ \E mint0_state \in ChangeMints, mint1_state \in ChangeMints,
          epoch \in Epochs, post_fee_amount_0 \in PostFeeAmounts,
          post_fee_amount_1 \in PostFeeAmounts :
          fee' = [called |-> TRUE, op |-> "get_pool_mints_inverse_fee",
                  mint0_state |-> mint0_state, mint1_state |-> mint1_state,
                  epoch |-> epoch, post_fee_amount_0 |-> post_fee_amount_0,
                  post_fee_amount_1 |-> post_fee_amount_1,
                  result |-> get_pool_mints_inverse_fee(
                                 mint0_state, mint1_state, epoch,
                                 post_fee_amount_0, post_fee_amount_1)]
    /\ UNCHANGED <<swap_vars, slip, change, tick_call, amounts>>

NextPoolFee == GetPoolMintsInverseFee

SpecPoolFee == InitPoolFee /\ [][NextPoolFee]_vars

----------------------------------------------------------------------------
(* Properties of swap_compute.                                              *)

\* The swap loop was entered: the SwapState is seeded from the pool.
Seeded == tick_array_start_index_vec # <<>>

PredictedAfter(start_index) ==
    next_initialized_tick_array_start_index(world, start_index, zero_for_one)

\* C1: swap_compute never completes more than ten loop iterations in one
\* call; an eleventh required step gives "loop_count limit" instead.
C1_AtMostTenIterations == loop_count <= 10

\* C2: a further tick array taken off the queue is accepted exactly when its
\* start index is the next initialized start index predicted, in the swap
\* direction, after the tick array in use just before.
C2_AcceptedIffPredicted ==
    taken.count > 0 =>
        (taken.accepted <=>
            (PredictedAfter(taken.before).some
             /\ PredictedAfter(taken.before).start = taken.start))

\* C3: no Ok result when the tick has left (MIN_TICK, MAX_TICK) with a
\* non-zero amount_specified_remaining.
C3_NoPartialResultOutsideRange ==
    ~(/\ result = "ok"
      /\ state.amount_specified_remaining # 0
      /\ (state.tick <= MIN_TICK \/ state.tick >= MAX_TICK))

\* C4: an empty tick-array queue at a point where a tick array is needed
\* ends the computation in an error value, never in an abort.
C4_EmptyQueueIsAnError == result # "panic: pop_front"

\* C5: at the end of a swap computation the sqrt price is <= the pool's
\* starting sqrt price when zero_for_one and >= it otherwise, and no single
\* step moves the price against the swap direction.
C5_PriceNeverMovesAgainstDirection ==
    /\ Seeded =>
           IF zero_for_one
           THEN state.sqrt_price_x64 <= pool_state.sqrt_price_x64
           ELSE state.sqrt_price_x64 >= pool_state.sqrt_price_x64
    /\ step.valid =>
           IF zero_for_one
           THEN state.sqrt_price_x64 <= step.sqrt_price_start_x64
           ELSE state.sqrt_price_x64 >= step.sqrt_price_start_x64

\* C6: a step changes the running liquidity only when its resulting price
\* is the boundary price of an initialized next tick, and then to
\* liquidity - liquidity_net (zero_for_one) or liquidity + liquidity_net.
C6_LiquidityChangesOnlyOnCrossing ==
    step.valid =>
        state.liquidity =
            IF state.sqrt_price_x64 = step.sqrt_price_next_x64 /\ step.initialized
            THEN IF zero_for_one
                 THEN step.liquidity_start - step.liquidity_net
                 ELSE step.liquidity_start + step.liquidity_net
            ELSE step.liquidity_start

C6_Witness ==
    /\ step.valid
    /\ zero_for_one
    /\ step.initialized
    /\ state.sqrt_price_x64 = step.sqrt_price_next_x64
    /\ step.liquidity_start = 1000000
    /\ step.liquidity_net = -200000
    /\ state.liquidity = 1200000

LimitErrors ==
    {"sqrt_price_limit_x64 must greater than MIN_SQRT_PRICE_X64",
     "sqrt_price_limit_x64 must smaller than current",
     "sqrt_price_limit_x64 must smaller than MAX_SQRT_PRICE_X64",
     "sqrt_price_limit_x64 must greater than current"}

\* swap_compute is entered: get_first_initialized_tick_array found an array.
SwapComputeCalled ==
    get_first_initialized_tick_array(world, pool_state, zero_for_one).ok

\* C12: swap_compute with amount_specified = 0 returns "amountSpecified must
\* not be 0" and leaves the tick-array queue as it was; a rejected price
\* limit leaves the queue as it was too.
C12_ValidationLeavesQueue ==
    [][(pc = "init" /\ SwapComputeCalled) =>
          /\ amount_specified = 0 =>
                 /\ result' = "amountSpecified must not be 0"
                 /\ tick_arrays' = tick_arrays
          /\ result' \in LimitErrors => tick_arrays' = tick_arrays]_vars

C12_Witness ==
    /\ result = "amountSpecified must not be 0"
    /\ Len(tick_arrays) = MaxQueue

\* The limit swap_compute works with: the given one, or the default.
LimitInUse ==
    IF limit_price # 0 THEN limit_price
    ELSE IF zero_for_one THEN MIN_SQRT_PRICE_X64 + 1 ELSE MAX_SQRT_PRICE_X64 - 1

LimitAcceptable ==
    IF zero_for_one
    THEN LimitInUse < pool_state.sqrt_price_x64 /\ LimitInUse >= MIN_SQRT_PRICE_X64
    ELSE LimitInUse > pool_state.sqrt_price_x64 /\ LimitInUse <= MAX_SQRT_PRICE_X64

\* C13: the limit in use is the given one or MIN_SQRT_PRICE_X64 + 1 /
\* MAX_SQRT_PRICE_X64 - 1 by default; the computation proceeds exactly when
\* it is strictly on the swap side of the current price and inside the
\* global bounds, and every other limit is a validation error.
C13_PriceLimitValidated ==
    (pc \in {"loop", "done"} /\ SwapComputeCalled /\ amount_specified # 0) =>
        /\ result \in LimitErrors <=> ~LimitAcceptable
        /\ sqrt_price_limit_x64 = LimitInUse

C13_Witness ==
    /\ result = "sqrt_price_limit_x64 must smaller than current"
    /\ limit_price = pool_state.sqrt_price_x64
    /\ amount_specified # 0

----------------------------------------------------------------------------
(* Properties of the transfer-fee helpers.                                  *)

PinnedAtMaximum ==
    /\ fee.mint.has_extension
    /\ get_epoch_fee(fee.mint.config, fee.epoch).transfer_fee_basis_points
           = MAX_FEE_BASIS_POINTS

MaximumFeeOfEpoch == get_epoch_fee(fee.mint.config, fee.epoch).maximum_fee

\* C7: with transfer_fee_basis_points = MAX_FEE_BASIS_POINTS for the epoch,
\* get_transfer_fee and get_transfer_inverse_fee both return maximum_fee for
\* every amount; for a mint without the extension both return 0.
C7_PinnedFeeIsMaximumFee ==
    fee.called =>
        /\ ~fee.mint.has_extension => fee.result = Ok(0)
        /\ PinnedAtMaximum => fee.result = Ok(MaximumFeeOfEpoch)

\* C7 (amended): with transfer_fee_basis_points = MAX_FEE_BASIS_POINTS for
\* the epoch, get_transfer_inverse_fee returns maximum_fee for every amount,
\* and get_transfer_fee returns the smaller of the amount and maximum_fee;
\* for a mint without the extension both return 0.
C7_PinnedFeeAmended ==
    fee.called =>
        /\ ~fee.mint.has_extension => fee.result = Ok(0)
        /\ PinnedAtMaximum /\ fee.op = "get_transfer_inverse_fee"
               => fee.result = Ok(MaximumFeeOfEpoch)
        /\ PinnedAtMaximum /\ fee.op = "get_transfer_fee"
               => fee.result = Ok(IF fee.amount < MaximumFeeOfEpoch
                                  THEN fee.amount ELSE MaximumFeeOfEpoch)

C7_Witness ==
    /\ fee.called
    /\ fee.op = "get_transfer_fee"
    /\ PinnedAtMaximum
    /\ 0 < fee.amount
    /\ fee.amount < MaximumFeeOfEpoch
    /\ fee.result = Ok(fee.amount)

----------------------------------------------------------------------------
(* Properties of amount_with_slippage.                                      *)

\* C8: amount_with_slippage(a, 0, up_towards) returns Ok(a) for every amount
\* and both directions.
C8_ZeroSlippageIsIdentity ==
    \A i \in DOMAIN slip :
        slip[i].slippage_bps = 0 => slip[i].result = Ok(slip[i].amount)

C8_Witness ==
    /\ Len(slip) = 2
    /\ slip[1].slippage_bps = 0 /\ slip[2].slippage_bps = 0
    /\ slip[1].amount = U64_MAX /\ slip[2].amount = U64_MAX
    /\ slip[1].up_towards /\ ~slip[2].up_towards
    /\ slip[1].result = Ok(U64_MAX) /\ slip[2].result = Ok(U64_MAX)

\* C9: for a fixed amount and b1 <= b2 with both calls succeeding, the
\* result is non-decreasing in the bps and never below the amount when
\* up_towards, non-increasing and never above the amount otherwise.
C9_MonotonicInSlippage ==
    \A i, j \in DOMAIN slip :
        (/\ slip[i].amount = slip[j].amount
         /\ slip[i].up_towards = slip[j].up_towards
         /\ slip[i].slippage_bps <= slip[j].slippage_bps
         /\ slip[i].result.outcome = "ok"
         /\ slip[j].result.outcome = "ok")
        => IF slip[i].up_towards
           THEN /\ slip[i].result.value <= slip[j].result.value
                /\ slip[i].result.value >= slip[i].amount
           ELSE /\ slip[i].result.value >= slip[j].result.value
                /\ slip[i].result.value <= slip[i].amount

C9_Witness ==
    /\ Len(slip) = 2
    /\ slip[1].amount = slip[2].amount
    /\ slip[1].up_towards /\ slip[2].up_towards
    /\ slip[1].slippage_bps < slip[2].slippage_bps
    /\ slip[1].result.outcome = "ok" /\ slip[2].result.outcome = "ok"
    /\ slip[1].amount < slip[1].result.value
    /\ slip[1].result.value < slip[2].result.value

\* floor(amount * (10000 +/- slippage_bps) / 10000) over the integers.
ExactThreshold(call) ==
    IF call.up_towards
    THEN (call.amount * (TEN_THOUSAND + call.slippage_bps)) \div TEN_THOUSAND
    ELSE (call.amount * (TEN_THOUSAND - call.slippage_bps)) \div TEN_THOUSAND

\* C10: amount_with_slippage returns floor(amount * (10000 +/- bps) / 10000)
\* when that value fits in u64 and an error when it does not.
C10_FloorOrError ==
    \A i \in DOMAIN slip :
        IF 0 <= ExactThreshold(slip[i]) /\ ExactThreshold(slip[i]) <= U64_MAX
        THEN slip[i].result = Ok(ExactThreshold(slip[i]))
        ELSE slip[i].result = Err

\* C11: amount_with_slippage is total: every call returns a threshold or an
\* error value and never aborts.
C11_NeverAborts ==
    \A i \in DOMAIN slip : slip[i].result.outcome \in {"ok", "err"}

----------------------------------------------------------------------------
(* Properties of calculate_swap_change.                                    *)

Returned == change.stage = "end" /\ change.outcome = "ok"

\* C14: an input mint that is neither token_mint_0 nor token_mint_1 makes
\* calculate_swap_change return an error value; the call does not abort.
C14_UnknownMintIsAnError ==
    (/\ change.stage = "end"
     /\ change.user_mint # PoolAccounts.token_mint_0
     /\ change.user_mint # PoolAccounts.token_mint_1)
        => change.outcome = "err"

Side0IntoSide1(legs, mint0_state, mint1_state) ==
    /\ legs.input_vault = PoolAccounts.token_vault_0
    /\ legs.input_vault_mint = PoolAccounts.token_mint_0
    /\ legs.input_token_program = TokenProgramOf(mint0_state)
    /\ legs.output_vault = PoolAccounts.token_vault_1
    /\ legs.output_vault_mint = PoolAccounts.token_mint_1
    /\ legs.output_token_program = TokenProgramOf(mint1_state)

Side1IntoSide0(legs, mint0_state, mint1_state) ==
    /\ legs.input_vault = PoolAccounts.token_vault_1
    /\ legs.input_vault_mint = PoolAccounts.token_mint_1
    /\ legs.input_token_program = TokenProgramOf(mint1_state)
    /\ legs.output_vault = PoolAccounts.token_vault_0
    /\ legs.output_vault_mint = PoolAccounts.token_mint_0
    /\ legs.output_token_program = TokenProgramOf(mint0_state)

\* C15: zero_for_one is true exactly when the input mint is token_mint_0;
\* the legs are then side 0 in and side 1 out, and the other way round for
\* token_mint_1; the input and output legs of every result are the two
\* different sides of the pool.
C15_LegsFollowInputMint ==
    /\ (change.stage # "start" /\ change.legs.matched) =>
          /\ change.legs.zero_for_one
                <=> change.user_mint = PoolAccounts.token_mint_0
          /\ change.user_mint = PoolAccounts.token_mint_0
                => Side0IntoSide1(change.legs, change.mint0_state, change.mint1_state)
          /\ change.user_mint = PoolAccounts.token_mint_1
                => Side1IntoSide0(change.legs, change.mint0_state, change.mint1_state)
    /\ change.stage = "engine" => zero_for_one = change.legs.zero_for_one
    /\ Returned =>
          /\ change.legs.matched
          /\ zero_for_one = change.legs.zero_for_one
          /\ change.legs.input_vault # change.legs.output_vault
          /\ change.legs.input_vault_mint # change.legs.output_vault_mint

C15_Witness ==
    /\ Returned
    /\ change.user_mint = PoolAccounts.token_mint_1
    /\ ~zero_for_one
    /\ change.legs.input_vault = PoolAccounts.token_vault_1
    /\ change.legs.output_vault = PoolAccounts.token_vault_0

\* The mint the input side of the swap belongs to.
MintOfInputSide == IF zero_for_one THEN change.mint0_state ELSE change.mint1_state

ScaledDown == (state.amount_calculated * (TEN_THOUSAND - change.slippage_bps)) \div TEN_THOUSAND

ScaledUp == (state.amount_calculated * (TEN_THOUSAND + change.slippage_bps)) \div TEN_THOUSAND

\* C18: the returned threshold is floor(amount_calculated * (10000 - bps) /
\* 10000), never above amount_calculated, for a base-input swap; for a
\* base-output swap it is floor(amount_calculated * (10000 + bps) / 10000)
\* plus the input mint's inverse transfer fee of that scaled value, never
\* below amount_calculated, the addition never wrapping.
C18_ThresholdFromCalculated ==
    Returned =>
        IF change.base_in
        THEN /\ change.other_amount_threshold = ScaledDown
             /\ change.other_amount_threshold <= state.amount_calculated
        ELSE /\ change.other_amount_threshold
                  = ScaledUp + get_transfer_inverse_fee(MintOfInputSide,
                                                        change.epoch, ScaledUp).value
             /\ change.other_amount_threshold >= state.amount_calculated

\* C19: the engine receives amount minus the input mint's transfer fee for a
\* base-input swap and amount itself for a base-output swap, never more than
\* amount.
C19_EngineAmountExcludesFee ==
    change.stage = "engine" =>
        /\ is_base_input = change.base_in
        /\ amount_specified
              = IF change.base_in
                THEN change.amount
                        - get_transfer_fee(MintOfInputSide, change.epoch,
                                           change.amount).value
                ELSE change.amount
        /\ amount_specified <= change.amount

C19_Witness ==
    /\ change.stage = "engine"
    /\ pc = "loop"
    /\ change.base_in
    /\ ~zero_for_one
    /\ change.mint0_state # change.mint1_state
    /\ 0 < amount_specified
    /\ amount_specified < change.amount

\* The i32 whose two's-complement bytes, high byte first, are `bytes`.
FromBigEndian(bytes) ==
    (IF bytes[1] >= 128 THEN bytes[1] - 256 ELSE bytes[1]) * 16777216
        + bytes[2] * 65536 + bytes[3] * 256 + bytes[4]

\* C20: the account list has one address per visited tick-array start index,
\* in the order of the visits, each derived from the tick-array seed tag, the
\* pool id, the big-endian bytes of that index and the program id only.
C20_KeysFollowVisitedArrays ==
    Returned =>
        /\ Len(change.remaining_tick_array_keys) = Len(tick_array_start_index_vec)
        /\ \A i \in DOMAIN tick_array_start_index_vec :
              LET key == change.remaining_tick_array_keys[i]
              IN  /\ key.program_id = RAYDIUM_V3_PROGRAM
                  /\ Len(key.seeds) = 3
                  /\ key.seeds[1] = TICK_ARRAY_SEED
                  /\ key.seeds[2] = POOL_ID
                  /\ Len(key.seeds[3]) = 4
                  /\ \A b \in 1..4 : key.seeds[3][b] \in 0..255
                  /\ FromBigEndian(key.seeds[3]) = tick_array_start_index_vec[i]

C20_Witness ==
    /\ Returned
    /\ Len(change.remaining_tick_array_keys) >= 2
    /\ \E i \in DOMAIN tick_array_start_index_vec : tick_array_start_index_vec[i] < 0

----------------------------------------------------------------------------
(* Properties of tick_with_spacing and get_array_start_index.              *)

Called(function) == tick_call.called /\ tick_call.function = function

\* C16: for a spacing s > 0, tick_with_spacing(t, s) is a multiple of s, at
\* most t and above t - s; for a negative t that is not a multiple of s it is
\* the multiple of s immediately below t, and tick_with_spacing(-7, 10) = -10.
C16_FloorToSpacing ==
    Called("tick_with_spacing") =>
        /\ tick_call.result % tick_call.tick_spacing = 0
        /\ tick_call.result <= tick_call.tick
        /\ tick_call.result > tick_call.tick - tick_call.tick_spacing
        /\ (tick_call.tick = -7 /\ tick_call.tick_spacing = 10)
              => tick_call.result = -10

C16_Witness ==
    /\ Called("tick_with_spacing")
    /\ tick_call.tick = -7
    /\ tick_call.tick_spacing = 10
    /\ tick_call.result = -10

\* C17: get_array_start_index(t, s) is a multiple of 60 * s with
\* start <= t < start + 60 * s, and applying it to its own result returns
\* the same value.
C17_StartIndexOfWindow ==
    Called("get_array_start_index") =>
        /\ tick_call.result % (60 * tick_call.tick_spacing) = 0
        /\ tick_call.result <= tick_call.tick
        /\ tick_call.tick < tick_call.result + 60 * tick_call.tick_spacing
        /\ tick_call.again = tick_call.result

C17_Witness ==
    /\ Called("get_array_start_index")
    /\ tick_call.tick = -61
    /\ tick_call.tick_spacing = 1
    /\ tick_call.result = -120
    /\ tick_call.again = -120

----------------------------------------------------------------------------
(* Further properties of swap_compute.                                     *)

NoDuplicate(seq) == \A i, j \in DOMAIN seq : seq[i] = seq[j] => i = j

\* C21: on a successful swap_compute the visited list is the start indexes
\* of the tick arrays taken off the queue, in the order they were taken: its
\* first element is the expected current start index, it has one entry per
\* array taken, it holds no duplicate, and a swap that stays inside its first
\* array yields exactly one start index.
C21_VisitedListIsTheArraysTaken ==
    (pc = "done" /\ result = "ok") =>
        /\ tick_array_start_index_vec # <<>>
        /\ tick_array_start_index_vec[1] = current_valid_tick_array_start_index
        /\ Len(tick_array_start_index_vec) = taken.count + 1
        /\ tick_array_start_index_vec[Len(tick_array_start_index_vec)]
              = tick_array_current
        /\ taken.count = 0 => Len(tick_array_start_index_vec) = 1
        /\ NoDuplicate(tick_array_start_index_vec)

\* The price lies strictly between a and b, or on one of them.
Between(price, a, b) == (a <= price /\ price <= b) \/ (b <= price /\ price <= a)

\* C22: the current sqrt price never passes the price limit (it stays >= the
\* limit with zero_for_one and <= it otherwise), each step's target being
\* the boundary price of the next tick when that boundary lies between the
\* current price and the limit, and the limit itself otherwise.
C22_PriceNeverPassesLimit ==
    /\ (Seeded /\ pc = "loop") =>
           IF zero_for_one
           THEN state.sqrt_price_x64 >= sqrt_price_limit_x64
           ELSE state.sqrt_price_x64 <= sqrt_price_limit_x64
    /\ step.valid =>
           step.target_price
              = IF Between(step.sqrt_price_next_x64, step.sqrt_price_start_x64,
                           sqrt_price_limit_x64)
                THEN step.sqrt_price_next_x64
                ELSE sqrt_price_limit_x64

\* C23: across the steps of one swap the amounts are conserved: for a
\* base-input swap amount_specified_remaining plus the sum of amount_in +
\* fee_amount equals amount_specified and amount_calculated is the sum of
\* amount_out; for a base-output swap the two sums change places.
\* amount_specified_remaining never increases, and an addition that does not
\* fit in u64 ends the computation instead of wrapping.
C23_AmountsConserved ==
    amounts.stage = "loop" =>
        /\ amounts.amount_specified_remaining <= amounts.remaining_before
        /\ IF amounts.is_base_input
           THEN /\ amounts.amount_specified_remaining + amounts.sum_in_and_fee
                      = amounts.amount_specified
                /\ amounts.amount_calculated = amounts.sum_out
           ELSE /\ amounts.amount_specified_remaining + amounts.sum_out
                      = amounts.amount_specified
                /\ amounts.amount_calculated = amounts.sum_in_and_fee

\* C24: after each step the current tick is tick_next - 1 (zero_for_one) or
\* tick_next (otherwise) when the new price is the boundary price of the
\* next tick, the tick recomputed from the new price when the price moved
\* without reaching the boundary, and unchanged when the price did not move;
\* tick_next lies within [MIN_TICK, MAX_TICK].
C24_TickAfterStep ==
    [][(pc = "loop" /\ pc' = "loop") =>
          /\ step'.tick_next >= MIN_TICK
          /\ step'.tick_next <= MAX_TICK
          /\ state'.tick
                = IF state'.sqrt_price_x64 = get_sqrt_price_at_tick(step'.tick_next)
                  THEN (IF zero_for_one THEN step'.tick_next - 1
                        ELSE step'.tick_next)
                  ELSE IF state'.sqrt_price_x64 # state.sqrt_price_x64
                  THEN get_tick_at_sqrt_price(state'.sqrt_price_x64)
                  ELSE state.tick]_vars

C24_Witness ==
    /\ step.valid
    /\ zero_for_one
    /\ state.sqrt_price_x64 = get_sqrt_price_at_tick(step.tick_next)
    /\ state.sqrt_price_x64 < step.sqrt_price_start_x64
    /\ state.tick = step.tick_next - 1

\* C29: every swap computation reaches a terminal state after finitely many
\* steps (at most one more than the iteration cap completes); it ends with
\* Ok only when the remaining amount is zero, the price is the limit or the
\* tick is outside (MIN_TICK, MAX_TICK), and with an error otherwise.
C29_SwapComputeTerminates ==
    /\ <>(pc = "done")
    /\ [](loop_count <= LOOP_LIMIT + 1)
    /\ [](pc = "done" =>
             /\ result # "none"
             /\ result = "ok" =>
                   \/ state.amount_specified_remaining = 0
                   \/ state.sqrt_price_x64 = sqrt_price_limit_x64
                   \/ state.tick >= MAX_TICK
                   \/ state.tick <= MIN_TICK)

C29_Witness ==
    /\ pc = "done"
    /\ result = "ok"
    /\ loop_count >= 2
    /\ state.amount_specified_remaining = 0

----------------------------------------------------------------------------
(* Properties of the tick-array scans.                                     *)

InitializedSlots(tick_array) ==
    {i \in 0..59 : tick_array.ticks[i].liquidity_gross # 0}

\* C25: next_initialized_tick returns None when current_tick is outside the
\* array's window; inside it, with zero_for_one the initialized slot of
\* greatest index at or below the slot of current_tick, without it the
\* initialized slot of smallest index strictly above that slot, None when
\* there is no such slot; it reads no slot outside 0..59.
C25_NextInitializedTick ==
    Called("next_initialized_tick") =>
        LET tick_array == tick_call.tick_array
            spacing == tick_call.tick_spacing
            current == tick_call.current_tick_index
            in_window == /\ tick_array.start_tick_index <= current
                         /\ current < tick_array.start_tick_index + 60 * spacing
            slot == (current - tick_array.start_tick_index) \div spacing
            slots == {i \in InitializedSlots(tick_array) :
                        IF tick_call.zero_for_one THEN i <= slot ELSE i > slot}
        IN  /\ tick_call.reads \subseteq 0..59
            /\ IF ~in_window \/ slots = {}
               THEN ~tick_call.result.some
               ELSE /\ tick_call.result.some
                    /\ tick_call.result.tick_state
                          = tick_array.ticks[IF tick_call.zero_for_one
                                             THEN MaxOf(slots) ELSE MinOf(slots)]

C25_Witness ==
    /\ Called("next_initialized_tick")
    /\ ~tick_call.zero_for_one
    /\ tick_call.tick_spacing = 10
    /\ tick_call.tick_array.start_tick_index = -600
    /\ tick_call.current_tick_index = -591
    /\ InitializedSlots(tick_call.tick_array) = {0, 30, 59}
    /\ tick_call.result.some
    /\ tick_call.result.tick_state.tick = -300

\* C26: first_initialized_tick returns the initialized slot of highest index
\* when zero_for_one is true and of lowest index when it is false, and the
\* error InvalidTickArray exactly when none of the 60 slots is initialized.
C26_FirstInitializedTick ==
    Called("first_initialized_tick") =>
        LET tick_array == tick_call.tick_array
            slots == InitializedSlots(tick_array)
        IN  /\ ~tick_call.result.some <=> slots = {}
            /\ slots # {} =>
                  tick_call.result.tick_state
                     = tick_array.ticks[IF tick_call.zero_for_one
                                        THEN MaxOf(slots) ELSE MinOf(slots)]

C26_Witness ==
    /\ Called("first_initialized_tick")
    /\ tick_call.zero_for_one
    /\ InitializedSlots(tick_call.tick_array) = {1, 30}
    /\ tick_call.tick_array.start_tick_index = 60
    /\ tick_call.result.some
    /\ tick_call.result.tick_state.tick = 90

----------------------------------------------------------------------------
(* Properties of the bitmap extension.                                     *)

\* The set bits of the bank on the scanned side of the start offset, the
\* start offset included.
BitsInDirection ==
    {b \in tick_call.tickarray_bitmap :
        IF tick_call.zero_for_one THEN b <= tick_call.offset
        ELSE b >= tick_call.offset}

NearestBitInDirection ==
    IF tick_call.zero_for_one THEN MaxOf(BitsInDirection)
    ELSE MinOf(BitsInDirection)

\* The result when a bit is set in the scan direction: (true, s), s the
\* start index of the nearest such tick array.
FoundNearest ==
    BitsInDirection # {} =>
        /\ tick_call.result.found
        /\ tick_call.result.index
              = tick_call.bank_min
                  + NearestBitInDirection * 60 * tick_call.tick_spacing

ValidStartIndex(tick_index, tick_spacing) ==
    /\ tick_index <= MAX_TICK
    /\ tick_index >= MIN_TICK => tick_index % (60 * tick_spacing) = 0
    /\ tick_index < MIN_TICK =>
          /\ tick_index % (60 * tick_spacing) = 0
          /\ tick_index + 60 * tick_spacing > MIN_TICK

\* C28: with B = 512 * 60 * tick_spacing, get_bitmap_offset returns an error
\* for every tick index in [-B, B) and for every index that is not a valid
\* tick-array start index; for every other index it returns a bank number k
\* in 0..13 with the index in [(k+1)*B, (k+2)*B) on the positive side or in
\* [-(k+2)*B, -(k+1)*B) on the negative side.
C28_BankNumberOrError ==
    Called("get_bitmap_offset") =>
        LET B == 512 * 60 * tick_call.tick_spacing
            t == tick_call.tick_index
            k == tick_call.result.value
        IN  IF (-B <= t /\ t < B) \/ ~ValidStartIndex(t, tick_call.tick_spacing)
            THEN tick_call.result = Err
            ELSE /\ tick_call.result.outcome = "ok"
                 /\ k \in 0..13
                 /\ IF t >= 0
                    THEN (k + 1) * B <= t /\ t < (k + 2) * B
                    ELSE -(k + 2) * B <= t /\ t < -(k + 1) * B

C28_Witness ==
    /\ Called("get_bitmap_offset")
    /\ tick_call.tick_spacing = 1
    /\ tick_call.tick_index = -61440
    /\ tick_call.result = Ok(0)

----------------------------------------------------------------------------
(* Properties of get_pool_mints_inverse_fee.                               *)

\* C30: get_pool_mints_inverse_fee returns, for each of the two mints, the
\* inverse transfer fee of that mint for its post-fee amount at the current
\* epoch: the value of get_transfer_inverse_fee(mint_state, epoch,
\* post_fee_amount).
C30_InverseFeeOfEachMint ==
    (fee.called /\ fee.op = "get_pool_mints_inverse_fee") =>
        /\ fee.result[1] = get_transfer_inverse_fee(fee.mint0_state, fee.epoch,
                                                    fee.post_fee_amount_0)
        /\ fee.result[2] = get_transfer_inverse_fee(fee.mint1_state, fee.epoch,
                                                    fee.post_fee_amount_1)

====
